---- MODULE Spec2Model ----
(***************************************************************************)
(* Ofcourse-DaytoCourse Backend: the prepaid ledger (user_balances,        *)
(* charge_histories, usage_histories), bank-SMS ingestion and matching,    *)
(* deposit requests, refund requests and rate limiting, as a state machine *)
(* over the database tables.  Every request handler runs in its own        *)
(* SQLAlchemy session (db/session.py, expire_on_commit=False) against      *)
(* PostgreSQL at READ COMMITTED: one model step is one database statement  *)
(* or one flush+commit, and the objects a session has loaded stay as they  *)
(* were loaded until db.refresh.                                           *)
(***************************************************************************)
EXTENDS Integers, Sequences, FiniteSets, TLC

\* ---------------------------------------------------------------- bounds
\* Sessions (requests in flight at the same time).
Procs == {1, 2}
\* Rows of the users table (user_id = nickname here; both are unique).
Users == {"u1", "u2"}
\* Requests started in one behaviour of the sequential specification.
MaxSeqOps == 4

VARIABLES
    balance,     \* user_balances: user -> row (exists = FALSE: no row)
    committed,   \* history: user -> the amounts of the credits and debits committed
    charges,     \* charge_histories, in insertion order
    usages,      \* usage_histories
    auditLogs,   \* balance_change_logs
    rateLogs,    \* rate_limit_logs
    deposits,    \* deposit_requests; deposit_request_id is the index
    smsLogs,     \* sms_logs; sms_log_id is the index
    unmatched,   \* unmatched_deposits; unmatched_deposit_id is the index
    refunds,     \* refund_requests; refund_request_id is the index
    now,         \* the clock, in minutes
    pc,          \* session -> where its handler stands
    loc,         \* session -> the handler's locals and the session's loaded objects
    res,         \* session -> the locals of its last finished request, with the code returned
    nops         \* requests started so far

vars == <<balance, committed, charges, usages, auditLogs, rateLogs, deposits, smsLogs, unmatched,
          refunds, now, pc, loc, res, nops>>

ledger == <<balance, committed, charges, usages, auditLogs>>

intake == <<deposits, smsLogs, unmatched>>

tables == <<ledger, rateLogs, intake, refunds>>

Min(a, b) == IF a <= b THEN a ELSE b

\* ------------------------------------------------- models/payment.py
\* A user_balances row as the column defaults give it.
NoBalance ==
    [exists |-> FALSE, total_balance |-> 0,
     refundable_balance |-> 0, non_refundable_balance |-> 0]

NewBalance == [NoBalance EXCEPT !.exists = TRUE]

\* Variant: the table checks the signs only.
UserBalanceChecks_signs(row) ==
    /\ row.total_balance >= 0
    /\ row.refundable_balance >= 0
    /\ row.non_refundable_balance >= 0

\* The four CHECK constraints of user_balances.
UserBalanceChecks(row) ==
    /\ row.total_balance >= 0
    /\ row.refundable_balance >= 0
    /\ row.non_refundable_balance >= 0
    /\ row.total_balance = row.refundable_balance + row.non_refundable_balance

\* Variant: the whole balance does not suffice.
UserBalance_has_sufficient_balance_strict(ub, amount) == ub.total_balance > amount

UserBalance_has_sufficient_balance(ub, amount) == ub.total_balance >= amount

\* Variant: the pool is credited and the total is not.
UserBalance_add_balance_pool_only(ub, amount, is_refundable) ==
    [ub EXCEPT
        !.refundable_balance = IF is_refundable THEN @ + amount ELSE @,
        !.non_refundable_balance = IF is_refundable THEN @ ELSE @ + amount]

UserBalance_add_balance(ub, amount, is_refundable) ==
    [ub EXCEPT
        !.refundable_balance = IF is_refundable THEN @ + amount ELSE @,
        !.non_refundable_balance = IF is_refundable THEN @ ELSE @ + amount,
        !.total_balance = @ + amount]

\* Variant: the refundable pool is used first, the non-refundable pool
\* for what it cannot cover.
DeductFromNonRefundable_last(ub, amount) ==
    IF amount > ub.refundable_balance
    THEN amount - ub.refundable_balance
    ELSE 0

\* What deduct_balance takes from the non-refundable pool.
DeductFromNonRefundable(ub, amount) ==
    IF ub.non_refundable_balance > 0
    THEN Min(amount, ub.non_refundable_balance)
    ELSE 0

UserBalance_deduct_balance(ub, amount) ==
    LET d == DeductFromNonRefundable(ub, amount)
        remaining_amount == amount - d
    IN [ub EXCEPT
           !.non_refundable_balance = @ - d,
           !.refundable_balance = IF remaining_amount > 0 THEN @ - remaining_amount ELSE @,
           !.total_balance = @ - amount]

\* --------------------------------------------------- the ORM session
\* The UPDATE a flush emits for a loaded row: only the columns whose value
\* differs from the loaded one are SET, to the session's absolute values.
FlushBalance(row, loaded, cur) ==
    [exists |-> row.exists,
     total_balance |->
        IF cur.total_balance # loaded.total_balance
        THEN cur.total_balance ELSE row.total_balance,
     refundable_balance |->
        IF cur.refundable_balance # loaded.refundable_balance
        THEN cur.refundable_balance ELSE row.refundable_balance,
     non_refundable_balance |->
        IF cur.non_refundable_balance # loaded.non_refundable_balance
        THEN cur.non_refundable_balance ELSE row.non_refundable_balance]

\* The flush succeeds when the row exists and the updated row passes the CHECKs.
FlushOk(row, loaded, cur) ==
    /\ row.exists
    /\ UserBalanceChecks(FlushBalance(row, loaded, cur))

\* A payer name: a nickname and the four digits after it.
NoName == <<"none", "none">>

\* A raw SMS text: the bank's format, the minute of the year its date and
\* time fields give, the amount field and the name line, already stripped.
NoRaw == [format |-> "none", time |-> 0, amount |-> 0, name |-> NoName]

\* The history of the amounts committed to a user's balance row.
CommitCredit(user, amount) ==
    committed' = [committed EXCEPT ![user].credited = @ + amount]

CommitDebit(user, amount) ==
    committed' = [committed EXCEPT ![user].debited = @ + amount]

\* The tables as a request finds them (kept in the locals for the result).
Snapshot ==
    [balance |-> balance, charges |-> Len(charges), usages |-> Len(usages),
     auditLogs |-> Len(auditLogs), deposits |-> deposits, smsLogs |-> Len(smsLogs),
     unmatched |-> unmatched, refunds |-> refunds, rateLogs |-> Len(rateLogs),
     now |-> now]

EmptySnapshot ==
    [balance |-> [u \in Users |-> NoBalance], charges |-> 0, usages |-> 0,
     auditLogs |-> 0, deposits |-> <<>>, smsLogs |-> 0,
     unmatched |-> <<>>, refunds |-> <<>>, rateLogs |-> 0, now |-> 0]

\* Variant: a charge row that starts refunded beyond its amount.
ChargeHistory_refunded(user_id, amount, source_type, is_refundable, deposit_request_id) ==
    [user_id |-> user_id, amount |-> amount, source_type |-> source_type,
     is_refundable |-> is_refundable, deposit_request_id |-> deposit_request_id,
     refunded_amount |-> amount + 1]

\* A new ChargeHistory row: refunded_amount takes its column default.  The
\* one statement that writes the column afterwards, approve_refund of
\* crud_payment, is not reached from any route, and RefundRequest has no
\* charge_history_id for it to read.
ChargeHistory(user_id, amount, source_type, is_refundable, deposit_request_id) ==
    [user_id |-> user_id, amount |-> amount, source_type |-> source_type,
     is_refundable |-> is_refundable, deposit_request_id |-> deposit_request_id,
     refunded_amount |-> 0]

\* The locals of a handler; ub is the session's UserBalance object and
\* ubLoaded its column values when last loaded or refreshed.  pre and repeat
\* observe the request: the tables as it found them, and whether it brings
\* the text of the request the session handled just before.
Blank ==
    [op |-> "none", code |-> "none", user |-> "none", amount |-> 0,
     is_refundable |-> FALSE, id |-> 0,
     hasUb |-> FALSE, ub |-> NoBalance, ubLoaded |-> NoBalance,
     targets |-> <<>>, success_count |-> 0, failed_count |-> 0,
     raw |-> NoRaw, name |-> NoName, time |-> 0, started |-> 0,
     sms_log_id |-> 0, status |-> "none", balance_before |-> 0, memo |-> "none",
     attempts |-> 0, rowcount |-> 0,
     onerr |-> "none", errcode |-> "none", ret |-> "none",
     repeat |-> FALSE, pre |-> EmptySnapshot]

Goto(p, label, l) ==
    /\ pc' = [pc EXCEPT ![p] = label]
    /\ loc' = [loc EXCEPT ![p] = l]
    /\ UNCHANGED res

\* The handler returns: the session is closed and its objects are gone.
Finish(p, code, l) ==
    /\ pc' = [pc EXCEPT ![p] = "idle"]
    /\ res' = [res EXCEPT ![p] = [l EXCEPT !.code = code]]
    /\ loc' = [loc EXCEPT ![p] = Blank]

\* A request arrives at an idle session.
Begin(op, user, amount) ==
    [Blank EXCEPT !.op = op, !.user = user, !.amount = amount, !.pre = Snapshot]

\* process_manual_charge: the loop goes to the next target, or the handler
\* returns its counts.
manual_charge_next(p, l) ==
    IF Tail(l.targets) = <<>>
    THEN Finish(p, "SUCCESS", [l EXCEPT !.targets = <<>>])
    ELSE Goto(p, "manual_charge_user", [l EXCEPT !.targets = Tail(@)])

\* An exception reaches the except clause the statement is under: the loop
\* body of process_manual_charge counts a failure and goes on, a handler
\* with nothing left to write returns its error code, and the others go on
\* at the step l.onerr names.
Raise(p, l) ==
    IF l.onerr = "manual_charge"
    THEN manual_charge_next(p, [l EXCEPT !.failed_count = @ + 1])
    ELSE IF l.onerr = "return"
    THEN Finish(p, l.errcode, l)
    ELSE Goto(p, l.onerr, l)

Init ==
    /\ balance = [u \in Users |-> NoBalance]
    /\ committed = [u \in Users |-> [credited |-> 0, debited |-> 0]]
    /\ charges = <<>>
    /\ usages = <<>>
    /\ auditLogs = <<>>
    /\ rateLogs = <<>>
    /\ deposits = <<>>
    /\ smsLogs = <<>>
    /\ unmatched = <<>>
    /\ refunds = <<>>
    /\ now = 0
    /\ pc = [p \in Procs |-> "idle"]
    /\ loc = [p \in Procs |-> Blank]
    /\ res = [p \in Procs |-> Blank]
    /\ nops = 0

\* ------------------------------------------------- crud/crud_rate_limit.py
RATE_LIMIT_CONFIGS ==
    [deposit_generate |-> [max_attempts |-> 1, period_minutes |-> 1],
     refund_request |-> [max_attempts |-> 3, period_minutes |-> 60],
     balance_deduct |-> [max_attempts |-> 10, period_minutes |-> 1]]

\* auth/rate_limiter.py: the rules the limiter announces, one per action type.
RATE_LIMIT_RULES ==
    [deposit_generate |-> [max_attempts |-> 1, period_minutes |-> 1],
     refund_request |-> [max_attempts |-> 3, period_minutes |-> 60],
     balance_deduct |-> [max_attempts |-> 10, period_minutes |-> 1],
     review_validation |-> [max_attempts |-> 1, period_minutes |-> 1]]

\* The count check_rate_limit selects: the user's logs of the action in the window.
current_count(user, action) ==
    Cardinality({i \in 1..Len(rateLogs) :
        /\ rateLogs[i].user_id = user
        /\ rateLogs[i].action_type = action
        /\ rateLogs[i].created_at >= now - RATE_LIMIT_CONFIGS[action].period_minutes})

\* Variant: every attempt is allowed.
check_rate_limit_open(user, action) == TRUE

\* Larger of two numbers.
max(a, b) == IF a >= b THEN a ELSE b

\* The oldest log check_rate_limit finds in the window (-1: none).
\* A variant that takes the newest entry of the window.
newest_created_at(user, action) ==
    LET times == {rateLogs[i].created_at : i \in {j \in 1..Len(rateLogs) :
                     /\ rateLogs[j].user_id = user
                     /\ rateLogs[j].action_type = action
                     /\ rateLogs[j].created_at >=
                            now - RATE_LIMIT_CONFIGS[action].period_minutes}}
    IN IF times = {} THEN -1
       ELSE CHOOSE t \in times : \A t2 \in times : t >= t2

oldest_created_at(user, action) ==
    LET times == {rateLogs[i].created_at : i \in {j \in 1..Len(rateLogs) :
                     /\ rateLogs[j].user_id = user
                     /\ rateLogs[j].action_type = action
                     /\ rateLogs[j].created_at >=
                            now - RATE_LIMIT_CONFIGS[action].period_minutes}}
    IN IF times = {} THEN -1
       ELSE CHOOSE t \in times : \A t2 \in times : t <= t2

\* What check_rate_limit returns.  An action without an entry in
\* RATE_LIMIT_CONFIGS raises ValueError; reset_time is None (-1) when the
\* attempt is allowed.
check_rate_limit_result(user, action) ==
    IF action \notin DOMAIN RATE_LIMIT_CONFIGS
    THEN [raised |-> TRUE, allowed |-> FALSE, remaining_attempts |-> 0, reset_time |-> -1]
    ELSE LET config == RATE_LIMIT_CONFIGS[action]
             count == current_count(user, action)
             oldest == oldest_created_at(user, action)
         IN [raised |-> FALSE,
             allowed |-> count < config.max_attempts,
             remaining_attempts |-> max(0, config.max_attempts - count),
             reset_time |-> IF count < config.max_attempts THEN -1
                            ELSE IF oldest # -1 THEN oldest + config.period_minutes
                            ELSE now]

check_rate_limit(user, action) == check_rate_limit_result(user, action).allowed

\* ------------------------------------------------- crud/crud_payment.py
\* get_or_create_user_balance, the select: a row found is loaded into the
\* session and the caller goes on at l.ret; none found leads to the insert.
get_or_create_user_balance(p, l) ==
    IF balance[l.user].exists
    THEN Goto(p, l.ret, [l EXCEPT !.hasUb = TRUE, !.ub = balance[l.user],
                                   !.ubLoaded = balance[l.user]])
    ELSE Goto(p, "create_user_balance", l)

\* get_or_create_user_balance, the insert and its commit: user_id is unique,
\* so a row another session has committed meanwhile fails the insert.
create_user_balance(p) ==
    /\ pc[p] = "create_user_balance"
    /\ LET l == loc[p] IN
       IF balance[l.user].exists
       THEN /\ Raise(p, l)
            /\ UNCHANGED balance
       ELSE /\ balance' = [balance EXCEPT ![l.user] = NewBalance]
            /\ Goto(p, "refresh_user_balance", l)
    /\ UNCHANGED <<committed, charges, usages, auditLogs, rateLogs, intake, refunds, now, nops>>

\* get_or_create_user_balance, db.refresh of the row just inserted.
refresh_user_balance(p) ==
    /\ pc[p] = "refresh_user_balance"
    /\ LET l == loc[p] IN
       Goto(p, l.ret, [l EXCEPT !.hasUb = TRUE, !.ub = balance[l.user],
                                 !.ubLoaded = balance[l.user]])
    /\ UNCHANGED <<tables, now, nops>>

\* ------------------------- routers/payments.py POST /deduct (Deduct)
\* Depends(check_balance_deduct_limit): the request arrives and the limit is read.
check_balance_deduct_limit(p, user, amount) ==
    /\ pc[p] = "idle"
    /\ amount > 0
    /\ nops' = nops + 1
    /\ LET l == Begin("deduct", user, amount) IN
       IF check_rate_limit(user, "balance_deduct")
       THEN Goto(p, "record_balance_deduct_action", l)
       ELSE Finish(p, "RATE_LIMIT_EXCEEDED", l)
    /\ UNCHANGED <<tables, now>>

\* Depends(record_balance_deduct_action): record_action_if_allowed reads the limit again.
record_balance_deduct_action(p) ==
    /\ pc[p] = "record_balance_deduct_action"
    /\ IF check_rate_limit(loc[p].user, "balance_deduct")
       THEN Goto(p, "create_rate_limit_log", loc[p])
       ELSE Finish(p, "RATE_LIMIT_EXCEEDED", loc[p])
    /\ UNCHANGED <<tables, now, nops>>

\* create_rate_limit_log: the insert and its commit; created_at is the start
\* of the request's transaction.
create_rate_limit_log(p) ==
    /\ pc[p] = "create_rate_limit_log"
    /\ rateLogs' = Append(rateLogs,
          [user_id |-> loc[p].user, action_type |-> "balance_deduct",
           created_at |-> loc[p].pre.now])
    /\ Goto(p, "deduct_balance", loc[p])
    /\ UNCHANGED <<ledger, intake, refunds, now, nops>>

\* controllers.payments_controller.deduct_balance up to the call of the crud:
\* the balance row is loaded and checked.
deduct_balance(p) ==
    /\ pc[p] = "deduct_balance"
    /\ LET l == loc[p]
           row == balance[l.user]
       IN IF ~row.exists
          THEN Finish(p, "BALANCE_NOT_FOUND", l)
          ELSE IF ~UserBalance_has_sufficient_balance(row, l.amount)
          THEN Finish(p, "INSUFFICIENT_BALANCE", l)
          ELSE Goto(p, "crud_deduct_balance",
                    [l EXCEPT !.hasUb = TRUE, !.ub = row, !.ubLoaded = row])
    /\ UNCHANGED <<tables, now, nops>>

\* crud.crud_payment.deduct_balance: its select returns the object the session
\* holds, the deduction is made on it, and one commit writes the balance and
\* the usage row; a failed flush is rolled back and re-raised.
crud_deduct_balance(p) ==
    /\ pc[p] = "crud_deduct_balance"
    /\ LET l == loc[p]
           cur == UserBalance_deduct_balance(l.ub, l.amount)
       IN IF ~UserBalance_has_sufficient_balance(l.ub, l.amount)
          THEN /\ Finish(p, "VALIDATION_ERROR", l)
               /\ UNCHANGED <<balance, committed, usages>>
          ELSE IF FlushOk(balance[l.user], l.ubLoaded, cur)
          THEN /\ balance' = [balance EXCEPT
                      ![l.user] = FlushBalance(balance[l.user], l.ubLoaded, cur)]
               /\ CommitDebit(l.user, l.amount)
               /\ usages' = Append(usages,
                      [user_id |-> l.user, amount |-> l.amount,
                       service_type |-> "course_generation", service_id |-> 0])
               /\ Goto(p, "deduct_balance_log", [l EXCEPT !.ub = cur])
          ELSE /\ Finish(p, "INTERNAL_ERROR", l)
               /\ UNCHANGED <<balance, committed, usages>>
    /\ UNCHANGED <<charges, auditLogs, rateLogs, intake, refunds, now, nops>>

\* db.refresh(user_balance), then create_balance_change_log: user_balance and
\* updated_balance are the same object, so both ends of the log are read
\* from the refreshed row.
deduct_balance_log(p) ==
    /\ pc[p] = "deduct_balance_log"
    /\ LET l == loc[p]
           row == balance[l.user]
       IN /\ auditLogs' = Append(auditLogs,
                 [user_id |-> l.user, change_type |-> "usage", amount |-> 0 - l.amount,
                  balance_before |-> row.total_balance,
                  balance_after |-> row.total_balance,
                  reference_table |-> "usage_histories"])
          /\ Finish(p, "SUCCESS", [l EXCEPT !.ub = row, !.ubLoaded = row])
    /\ UNCHANGED <<balance, committed, charges, usages, rateLogs, intake, refunds, now, nops>>

\* ------------------------- routers/reviews.py POST / (review reward)
calculate_review_reward(has_text, has_photos) ==
    IF has_text /\ has_photos THEN 500
    ELSE IF has_text THEN 300
    ELSE 100

\* create_place_review up to the credit: a review with text first asks
\* check_limit for REVIEW_VALIDATION, an action RATE_LIMIT_CONFIGS does not
\* hold, and the ValueError ends the request with status 400; otherwise the
\* review is stored and process_review_credit selects the balance row.
create_place_review(p, user, has_text, has_photos) ==
    /\ pc[p] = "idle"
    /\ nops' = nops + 1
    /\ LET l == [Begin("review", user, calculate_review_reward(has_text, has_photos))
                    EXCEPT !.ret = "process_review_credit", !.onerr = "return",
                           !.errcode = "CREDIT_FAILED"]
           limit == check_rate_limit_result(user, "review_validation")
       IN IF has_text /\ (limit.raised \/ ~limit.allowed)
          THEN Finish(p, "BAD_REQUEST", l)
          ELSE get_or_create_user_balance(p, l)
    /\ UNCHANGED <<tables, now>>

\* process_review_credit after get_or_create_user_balance: the non-refundable
\* credit and the charge row in one commit; on failure rollback.
process_review_credit(p) ==
    /\ pc[p] = "process_review_credit"
    /\ LET l == loc[p]
           cur == UserBalance_add_balance(l.ub, l.amount, FALSE)
       IN IF FlushOk(balance[l.user], l.ubLoaded, cur)
          THEN /\ balance' = [balance EXCEPT
                      ![l.user] = FlushBalance(balance[l.user], l.ubLoaded, cur)]
               /\ CommitCredit(l.user, l.amount)
               /\ charges' = Append(charges,
                      ChargeHistory(l.user, l.amount, "review_reward", FALSE, 0))
               /\ Finish(p, "SUCCESS", [l EXCEPT !.ub = cur])
          ELSE /\ Raise(p, l)
               /\ UNCHANGED <<balance, committed, charges>>
    /\ UNCHANGED <<usages, auditLogs, rateLogs, intake, refunds, now, nops>>

\* ------------------------- routers/admin.py manual charge (admin charge)
\* get_target_users: ALL_USERS is every user, SINGLE_USER the one of that nickname.
get_target_users(target_type, nickname) ==
    IF target_type = "all_users" THEN <<"u1", "u2">>
    ELSE IF nickname \in Users THEN <<nickname>>
    ELSE <<>>

\* process_manual_charge: the request arrives and the targets are selected.
process_manual_charge(p, target_type, nickname, amount, is_refundable) ==
    /\ pc[p] = "idle"
    /\ amount > 0
    /\ nops' = nops + 1
    /\ LET l == [Begin("admin_charge", nickname, amount)
                    EXCEPT !.is_refundable = is_refundable,
                           !.targets = get_target_users(target_type, nickname),
                           !.ret = "manual_charge_update", !.onerr = "manual_charge"]
       IN IF l.targets = <<>>
          THEN Finish(p, "NO_TARGET_USERS", l)
          ELSE Goto(p, "manual_charge_user", l)
    /\ UNCHANGED <<tables, now>>

\* The loop body up to update_user_balance's select: create_charge_history
\* inserts and commits the charge row of the next target, and the balance
\* row is selected.
manual_charge_user(p) ==
    /\ pc[p] = "manual_charge_user"
    /\ LET l == loc[p] IN
       /\ charges' = Append(charges,
              ChargeHistory(Head(l.targets), l.amount, "admin", l.is_refundable, 0))
       /\ get_or_create_user_balance(p, [l EXCEPT !.user = Head(l.targets), !.hasUb = FALSE])
    /\ UNCHANGED <<balance, committed, usages, auditLogs, rateLogs, intake, refunds, now, nops>>

\* update_user_balance after its select: add_balance and the commit.
manual_charge_update(p) ==
    /\ pc[p] = "manual_charge_update"
    /\ LET l == loc[p]
           cur == UserBalance_add_balance(l.ub, l.amount, l.is_refundable)
       IN IF FlushOk(balance[l.user], l.ubLoaded, cur)
          THEN /\ balance' = [balance EXCEPT
                      ![l.user] = FlushBalance(balance[l.user], l.ubLoaded, cur)]
               /\ CommitCredit(l.user, l.amount)
               /\ manual_charge_next(p, [l EXCEPT !.success_count = @ + 1])
          ELSE /\ Raise(p, l)
               /\ UNCHANGED <<balance, committed>>
    /\ UNCHANGED <<charges, usages, auditLogs, rateLogs, intake, refunds, now, nops>>

\* ------------------------- routers/payments.py POST /deposit/generate
\* The four digits generate_unique_deposit_name draws.
Digits == {"0001", "0002"}

\* DepositRequest expires one hour after it is created.
DepositLifetime == 60

\* Variant: no request counts as active.
get_existing_active_request_none(user) == {}

\* The user's pending requests that have not expired, ordered by created_at
\* descending, LIMIT 1: the rows the query may return (one of the latest).
get_existing_active_request(user) ==
    LET ids == {i \in 1..Len(deposits) :
                   /\ deposits[i].user_id = user
                   /\ deposits[i].status = "pending"
                   /\ deposits[i].expires_at > now}
    IN {i \in ids : \A j \in ids : deposits[j].created_at <= deposits[i].created_at}

\* Variant: a new request is always allowed.
check_user_rate_limit_deposit_open(user) == TRUE

\* No request of the user was created within the last minute.
check_user_rate_limit_deposit(user) ==
    {i \in 1..Len(deposits) :
        deposits[i].user_id = user /\ deposits[i].created_at >= now - 1} = {}

\* generate_deposit_name: the request arrives; an active request is returned as it is.
generate_deposit_name(p, user) ==
    /\ pc[p] = "idle"
    /\ nops' = nops + 1
    /\ LET l == [Begin("generate", user, 0) EXCEPT !.errcode = "INTERNAL_ERROR"]
           existing == get_existing_active_request(user)
       IN IF existing # {}
          THEN \E e \in existing : Finish(p, "SUCCESS", [l EXCEPT !.id = e])
          ELSE Goto(p, "check_user_rate_limit_deposit", l)
    /\ UNCHANGED <<tables, now>>

generate_check_rate_limit(p) ==
    /\ pc[p] = "check_user_rate_limit_deposit"
    /\ IF check_user_rate_limit_deposit(loc[p].user)
       THEN Goto(p, "create_deposit_request", loc[p])
       ELSE Finish(p, "RATE_LIMIT_EXCEEDED", loc[p])
    /\ UNCHANGED <<tables, now, nops>>

\* create_deposit_request: the active request is looked up again.
create_deposit_request(p) ==
    /\ pc[p] = "create_deposit_request"
    /\ LET existing == get_existing_active_request(loc[p].user) IN
       IF existing # {}
       THEN \E e \in existing : Finish(p, "SUCCESS", [loc[p] EXCEPT !.id = e])
       ELSE Goto(p, "generate_unique_deposit_name", loc[p])
    /\ UNCHANGED <<tables, now, nops>>

\* Names of pending, unexpired requests: the ones a new name must differ from.
ActiveNames ==
    {deposits[i].deposit_name : i \in {j \in 1..Len(deposits) :
        deposits[j].status = "pending" /\ deposits[j].expires_at > now}}

\* generate_unique_deposit_name tries this many names.
max_attempts == 100

\* generate_unique_deposit_name: one turn of the loop.  Four random digits are
\* appended to the nickname and the name is looked up among the active
\* requests; a name that is free is returned, a name that is taken costs one
\* attempt, and after max_attempts names the function raises ValueError.
\* The loop counter is the function's own and is gone when it is left.
generate_unique_deposit_name(p) ==
    /\ pc[p] = "generate_unique_deposit_name"
    /\ LET l == loc[p] IN
       IF l.attempts = max_attempts
       THEN Finish(p, "VALIDATION_ERROR", [l EXCEPT !.attempts = 0])
       ELSE \E d \in Digits :
               IF <<l.user, d>> \in ActiveNames
               THEN Goto(p, "generate_unique_deposit_name", [l EXCEPT !.attempts = @ + 1])
               ELSE Goto(p, "create_deposit_insert",
                         [l EXCEPT !.name = <<l.user, d>>, !.attempts = 0])
    /\ UNCHANGED <<tables, now, nops>>

\* The new row, and the user's stale pending rows set expired with it.
deposit_rows_after_insert(l) ==
    LET expired == [i \in 1..Len(deposits) |->
            IF /\ deposits[i].user_id = l.user
               /\ deposits[i].status = "pending"
               /\ deposits[i].expires_at <= now
            THEN [deposits[i] EXCEPT !.status = "expired"]
            ELSE deposits[i]]
    IN Append(expired,
           [user_id |-> l.user, deposit_name |-> l.name, amount |-> 1,
            status |-> "pending", created_at |-> l.pre.now,
            expires_at |-> now + DepositLifetime, matched |-> FALSE])

\* Variant: deposit_name without its unique constraint.
create_deposit_insert_any_name(p) ==
    /\ pc[p] = "create_deposit_insert"
    /\ deposits' = deposit_rows_after_insert(loc[p])
    /\ Finish(p, "SUCCESS", [loc[p] EXCEPT !.id = Len(deposits) + 1])
    /\ UNCHANGED <<ledger, rateLogs, smsLogs, unmatched, refunds, now, nops>>

\* The user's stale pending rows are set expired and the new row is inserted,
\* in one commit; deposit_name is unique over the whole table.  created_at is
\* the server's now(), the start of the transaction the request opened with
\* its first query; expires_at is computed from the clock at this step.
create_deposit_insert(p) ==
    /\ pc[p] = "create_deposit_insert"
    /\ LET l == loc[p] IN
       IF \E i \in 1..Len(deposits) : deposits[i].deposit_name = l.name
       THEN /\ Finish(p, "INTERNAL_ERROR", l)
            /\ UNCHANGED deposits
       ELSE /\ deposits' = deposit_rows_after_insert(l)
            /\ Finish(p, "SUCCESS", [l EXCEPT !.id = Len(deposits) + 1])
    /\ UNCHANGED <<ledger, rateLogs, smsLogs, unmatched, refunds, now, nops>>

\* ------------------------- routers/admin.py POST /cleanup (deposits)
\* Variant: every pending request counts as old.
old_deposits_pending ==
    {i \in 1..Len(deposits) : deposits[i].status = "pending"}

\* The WHERE clause of expire_old_deposits: pending and past expires_at.
old_deposits ==
    {i \in 1..Len(deposits) :
        deposits[i].status = "pending" /\ deposits[i].expires_at <= now}

\* cleanup_expired_deposits, expire_old_deposits: one UPDATE sets the old
\* requests expired, the commit follows, and the row count is returned.
expire_old_deposits(p) ==
    /\ pc[p] = "idle"
    /\ nops' = nops + 1
    /\ LET old == old_deposits IN
       /\ deposits' = [i \in 1..Len(deposits) |->
              IF i \in old THEN [deposits[i] EXCEPT !.status = "expired"]
              ELSE deposits[i]]
       /\ Finish(p, "SUCCESS",
                 [Begin("cleanup", "none", 0) EXCEPT !.rowcount = Cardinality(old),
                                                    !.started = nops + 1])
    /\ UNCHANGED <<ledger, rateLogs, smsLogs, unmatched, refunds, now>>

\* ------------------------- routers/sms.py POST /parse (IngestSms)
\* parse_woori_bank_sms reads the time as Korean time and converts it to UTC.
KstOffset == 540

\* UnmatchedDeposit expires 180 days after it is created.
UnmatchedLifetime == 259200

\* parse_bank_sms_format: the Woori format first, then the one-line format
\* whose time is taken as UTC; any other text fails.
parse_bank_sms_format(raw) ==
    IF raw.format = "woori"
    THEN [success |-> TRUE, amount |-> raw.amount, deposit_name |-> raw.name,
          transaction_time |-> raw.time - KstOffset]
    ELSE IF raw.format = "generic"
    THEN [success |-> TRUE, amount |-> raw.amount, deposit_name |-> raw.name,
          transaction_time |-> raw.time]
    ELSE [success |-> FALSE, amount |-> 0, deposit_name |-> NoName,
          transaction_time |-> 0]

\* Variant: the lookup finds nothing.
check_duplicate_sms_blind(amount, name, time) == 0

\* check_duplicate_sms: the log with this amount, name and time (0: none).
check_duplicate_sms(amount, name, time) ==
    LET ids == {i \in 1..Len(smsLogs) :
                   /\ smsLogs[i].parsed_amount = amount
                   /\ smsLogs[i].parsed_name = name
                   /\ smsLogs[i].parsed_time = time}
    IN IF ids = {} THEN 0 ELSE CHOOSE i \in ids : TRUE

\* The unique index unique_sms_entry of sms_logs admits the row.
unique_sms_entry(amount, name, time) ==
    \A i \in 1..Len(smsLogs) :
        \/ smsLogs[i].parsed_amount # amount
        \/ smsLogs[i].parsed_name # name
        \/ smsLogs[i].parsed_time # time

\* get_sms_logs(skip=0, limit=1): the log created last (0: none).
get_sms_logs ==
    IF smsLogs = <<>> THEN 0
    ELSE CHOOSE i \in 1..Len(smsLogs) :
             \A j \in 1..Len(smsLogs) : smsLogs[j].created_at <= smsLogs[i].created_at

\* Variant: the request's amount field must equal the amount deposited.
find_matching_deposit_request_by_amount(name, amount) ==
    {i \in 1..Len(deposits) :
        /\ deposits[i].deposit_name = name
        /\ deposits[i].amount = amount
        /\ deposits[i].status = "pending"}

\* find_matching_deposit_request: the pending requests of that name; the
\* amount it is given is not part of the condition.
find_matching_deposit_request(name, amount) ==
    {i \in 1..Len(deposits) :
        deposits[i].deposit_name = name /\ deposits[i].status = "pending"}

\* Variant: the status of the log is left as it is.
update_sms_log_status_skipped(sms_log_id, status) == smsLogs

\* update_sms_log_status: the processing status of the log is set.
update_sms_log_status(sms_log_id, status) ==
    [smsLogs EXCEPT ![sms_log_id].processing_status = status]

\* parse_sms_message up to create_sms_log: the text is parsed and the
\* duplicate is looked up; SmsLogCreate refuses an amount that is not positive.
parse_sms_message(p, raw) ==
    /\ pc[p] = "idle"
    /\ nops' = nops + 1
    /\ LET parsed == parse_bank_sms_format(raw)
           l == [Begin("sms", "none", parsed.amount)
                    EXCEPT !.raw = raw, !.name = parsed.deposit_name,
                           !.time = parsed.transaction_time, !.started = nops + 1,
                           !.repeat = (res[p].op = "sms" /\ res[p].raw = raw),
                           !.onerr = "process_payment_failed"]
       IN IF ~parsed.success
          THEN Finish(p, "PARSE_FAILED", l)
          ELSE IF check_duplicate_sms(l.amount, l.name, l.time) # 0
          THEN Finish(p, "duplicate", l)
          ELSE IF l.amount <= 0
          THEN Finish(p, "INTERNAL_ERROR", l)
          ELSE Goto(p, "create_sms_log", l)
    /\ UNCHANGED <<tables, now>>

\* create_sms_log: the duplicate is looked up again and the row is inserted
\* under the unique index on (amount, name, time); created_at is the start
\* of the transaction, which the first lookup opened.
create_sms_log(p) ==
    /\ pc[p] = "create_sms_log"
    /\ LET l == loc[p] IN
       IF \/ check_duplicate_sms(l.amount, l.name, l.time) # 0
          \/ ~unique_sms_entry(l.amount, l.name, l.time)
       THEN /\ Finish(p, "INTERNAL_ERROR", l)
            /\ UNCHANGED smsLogs
       ELSE /\ smsLogs' = Append(smsLogs,
                   [raw_message |-> l.raw, parsed_amount |-> l.amount,
                    parsed_name |-> l.name, parsed_time |-> l.time,
                    processing_status |-> "received", matched_deposit_id |-> 0,
                    created_at |-> l.started])
            /\ Goto(p, "match_deposit", [l EXCEPT !.sms_log_id = Len(smsLogs) + 1])
    /\ UNCHANGED <<ledger, rateLogs, deposits, unmatched, refunds, now, nops>>

\* match_deposit: a pending request of the parsed name, if there is one.
match_deposit(p) ==
    /\ pc[p] = "match_deposit"
    /\ LET l == loc[p]
           found == find_matching_deposit_request(l.name, l.amount)
       IN IF found = {}
          THEN Goto(p, "handle_unmatched_deposit", l)
          ELSE IF Cardinality(found) > 1
          THEN Finish(p, "INTERNAL_ERROR", l)
          ELSE Goto(p, "process_matched_deposit",
                    [l EXCEPT !.id = CHOOSE i \in found : TRUE])
    /\ UNCHANGED <<tables, now, nops>>

\* controllers.sms_controller.process_matched_deposit: the log is looked
\* for in the one row get_sms_logs(limit=1) returns.
process_matched_deposit(p) ==
    /\ pc[p] = "process_matched_deposit"
    /\ IF get_sms_logs = loc[p].sms_log_id
       THEN Goto(p, "process_payment", loc[p])
       ELSE Finish(p, "SMS_LOG_NOT_FOUND", loc[p])
    /\ UNCHANGED <<tables, now, nops>>

\* get_deposit_request loads the request; process_payment finds the same
\* object in the session and checks its owner and its status.
process_payment(p) ==
    /\ pc[p] = "process_payment"
    /\ LET l == loc[p]
           d == deposits[l.id]
       IN IF d.status # "pending"
          THEN Goto(p, "process_payment_failed", [l EXCEPT !.user = d.user_id, !.status = d.status])
          ELSE Goto(p, "mark_deposit_completed", [l EXCEPT !.user = d.user_id, !.status = d.status])
    /\ UNCHANGED <<tables, now, nops>>

\* mark_deposit_completed: UPDATE ... WHERE deposit_request_id = id, and commit.
mark_deposit_completed(p) ==
    /\ pc[p] = "mark_deposit_completed"
    /\ deposits' = [deposits EXCEPT ![loc[p].id].status = "completed",
                                    ![loc[p].id].matched = TRUE]
    /\ Goto(p, "process_payment_charge", loc[p])
    /\ UNCHANGED <<ledger, rateLogs, smsLogs, unmatched, refunds, now, nops>>

\* create_charge_history inserts and commits the charge row for the amount
\* the SMS gives, and get_or_create_user_balance selects the balance row.
process_payment_charge(p) ==
    /\ pc[p] = "process_payment_charge"
    /\ LET l == loc[p] IN
       /\ charges' = Append(charges,
              ChargeHistory(l.user, l.amount, "deposit", TRUE, l.id))
       /\ get_or_create_user_balance(p, [l EXCEPT !.ret = "process_payment_update"])
    /\ UNCHANGED <<balance, committed, usages, auditLogs, rateLogs, intake, refunds, now, nops>>

\* balance_before is read from the loaded object; update_user_balance adds
\* the refundable credit to the same object and commits.
process_payment_update(p) ==
    /\ pc[p] = "process_payment_update"
    /\ LET l == loc[p]
           cur == UserBalance_add_balance(l.ub, l.amount, TRUE)
       IN IF FlushOk(balance[l.user], l.ubLoaded, cur)
          THEN /\ balance' = [balance EXCEPT
                      ![l.user] = FlushBalance(balance[l.user], l.ubLoaded, cur)]
               /\ CommitCredit(l.user, l.amount)
               /\ Goto(p, "process_payment_log",
                       [l EXCEPT !.balance_before = l.ub.total_balance, !.ub = cur])
          ELSE /\ Raise(p, l)
               /\ UNCHANGED <<balance, committed>>
    /\ UNCHANGED <<charges, usages, auditLogs, rateLogs, intake, refunds, now, nops>>

\* db.refresh(user_balance), create_balance_change_log, and the SMS log is
\* set processed.
process_payment_log(p) ==
    /\ pc[p] = "process_payment_log"
    /\ LET l == loc[p]
           row == balance[l.user]
       IN /\ auditLogs' = Append(auditLogs,
                 [user_id |-> l.user, change_type |-> "charge", amount |-> l.amount,
                  balance_before |-> l.balance_before,
                  balance_after |-> row.total_balance,
                  reference_table |-> "charge_histories"])
          /\ smsLogs' = update_sms_log_status(l.sms_log_id, "processed")
          /\ Finish(p, "auto_charged", [l EXCEPT !.ub = row, !.ubLoaded = row])
    /\ UNCHANGED <<balance, committed, charges, usages, rateLogs, deposits, unmatched, refunds, now, nops>>

\* process_payment returned a failure: the SMS log is set failed.
process_payment_failed(p) ==
    /\ pc[p] = "process_payment_failed"
    /\ smsLogs' = update_sms_log_status(loc[p].sms_log_id, "failed")
    /\ Finish(p, "PAYMENT_FAILED", loc[p])
    /\ UNCHANGED <<ledger, rateLogs, deposits, unmatched, refunds, now, nops>>

\* handle_unmatched_deposit: the same lookup of the log among the latest one.
handle_unmatched_deposit(p) ==
    /\ pc[p] = "handle_unmatched_deposit"
    /\ IF get_sms_logs = loc[p].sms_log_id
       THEN Goto(p, "create_unmatched_deposit", loc[p])
       ELSE Finish(p, "SMS_LOG_NOT_FOUND", loc[p])
    /\ UNCHANGED <<tables, now, nops>>

\* create_unmatched_deposit, and the SMS log is set processed.
create_unmatched_deposit(p) ==
    /\ pc[p] = "create_unmatched_deposit"
    /\ LET l == loc[p] IN
       /\ unmatched' = Append(unmatched,
              [raw_message |-> l.raw, parsed_amount |-> l.amount, parsed_name |-> l.name,
               parsed_time |-> l.time, status |-> "unmatched", matched_user_id |-> "none",
               expires_at |-> now + UnmatchedLifetime])
       /\ smsLogs' = update_sms_log_status(l.sms_log_id, "processed")
       /\ Finish(p, "unmatched", [l EXCEPT !.id = Len(unmatched) + 1])
    /\ UNCHANGED <<ledger, rateLogs, deposits, refunds, now, nops>>

\* ------------------------- routers/sms.py POST /manual-match (ManualMatch)
\* match_deposit_manually up to the try block: the unmatched deposit is
\* loaded and its status checked.
match_deposit_manually(p, unmatched_deposit_id, user, confirmed_amount) ==
    /\ pc[p] = "idle"
    /\ confirmed_amount > 0
    /\ nops' = nops + 1
    /\ LET l == [Begin("manual_match", user, confirmed_amount)
                    EXCEPT !.id = unmatched_deposit_id, !.ret = "manual_match_log",
                           !.onerr = "return", !.errcode = "INTERNAL_ERROR"]
       IN IF unmatched_deposit_id \notin 1..Len(unmatched)
          THEN Finish(p, "NOT_FOUND", l)
          ELSE IF unmatched[unmatched_deposit_id].status # "unmatched"
          THEN Finish(p, "ALREADY_PROCESSED", l)
          ELSE Goto(p, "manual_match_charge", l)
    /\ UNCHANGED <<tables, now>>

\* create_charge_history for confirmed_amount, committed, and the select of
\* get_or_create_user_balance.
manual_match_charge(p) ==
    /\ pc[p] = "manual_match_charge"
    /\ LET l == loc[p] IN
       /\ charges' = Append(charges,
              ChargeHistory(l.user, l.amount, "deposit", TRUE, 0))
       /\ get_or_create_user_balance(p, l)
    /\ UNCHANGED <<balance, committed, usages, auditLogs, rateLogs, intake, refunds, now, nops>>

\* add_balance on the loaded object; the commit inside
\* create_balance_change_log writes the balance and the log together.
manual_match_log(p) ==
    /\ pc[p] = "manual_match_log"
    /\ LET l == loc[p]
           cur == UserBalance_add_balance(l.ub, l.amount, TRUE)
       IN IF FlushOk(balance[l.user], l.ubLoaded, cur)
          THEN /\ balance' = [balance EXCEPT
                      ![l.user] = FlushBalance(balance[l.user], l.ubLoaded, cur)]
               /\ CommitCredit(l.user, l.amount)
               /\ auditLogs' = Append(auditLogs,
                      [user_id |-> l.user, change_type |-> "charge", amount |-> l.amount,
                       balance_before |-> l.ub.total_balance,
                       balance_after |-> cur.total_balance,
                       reference_table |-> "charge_histories"])
               /\ Goto(p, "manual_match_commit", [l EXCEPT !.ub = cur, !.ubLoaded = cur])
          ELSE /\ Raise(p, l)
               /\ UNCHANGED <<balance, committed, auditLogs>>
    /\ UNCHANGED <<charges, usages, rateLogs, intake, refunds, now, nops>>

\* The unmatched deposit is set matched and committed.
manual_match_commit(p) ==
    /\ pc[p] = "manual_match_commit"
    /\ unmatched' = [unmatched EXCEPT ![loc[p].id].status = "matched",
                                      ![loc[p].id].matched_user_id = loc[p].user]
    /\ Finish(p, "SUCCESS", loc[p])
    /\ UNCHANGED <<ledger, rateLogs, deposits, smsLogs, refunds, now, nops>>

\* ------------------------- routers/sms.py POST /simple-match (simple match)
\* A variant that looks for the name alone.
find_unmatched_deposit_by_name(name, amount) ==
    {i \in 1..Len(unmatched) :
        /\ unmatched[i].parsed_name = name
        /\ unmatched[i].status = "unmatched"}

\* find_unmatched_deposit_by_name_amount: the unmatched deposits of that
\* name and amount; LIMIT 1 returns one of them.
find_unmatched_deposit_by_name_amount(name, amount) ==
    {i \in 1..Len(unmatched) :
        /\ unmatched[i].parsed_name = name
        /\ unmatched[i].parsed_amount = amount
        /\ unmatched[i].status = "unmatched"}

\* simple_match_deposit up to process_simple_match.
simple_match_deposit(p, user, name, amount) ==
    /\ pc[p] = "idle"
    /\ amount > 0
    /\ nops' = nops + 1
    /\ LET l == [Begin("simple_match", user, amount)
                    EXCEPT !.name = name, !.ret = "simple_match_update",
                           !.onerr = "return", !.errcode = "MATCH_FAILED"]
           found == find_unmatched_deposit_by_name_amount(name, amount)
       IN IF found = {}
          THEN Finish(p, "NOT_FOUND", l)
          ELSE \E i \in found :
                  Goto(p, "simple_match_charge", [l EXCEPT !.id = i])
    /\ UNCHANGED <<tables, now>>

\* process_simple_match: create_charge_history for parsed_amount, committed,
\* and the select of update_user_balance.
simple_match_charge(p) ==
    /\ pc[p] = "simple_match_charge"
    /\ LET l == loc[p] IN
       /\ charges' = Append(charges,
              ChargeHistory(l.user, unmatched[l.id].parsed_amount, "admin", TRUE, 0))
       /\ get_or_create_user_balance(p, l)
    /\ UNCHANGED <<balance, committed, usages, auditLogs, rateLogs, intake, refunds, now, nops>>

\* update_user_balance: add_balance and the commit.
simple_match_update(p) ==
    /\ pc[p] = "simple_match_update"
    /\ LET l == loc[p]
           cur == UserBalance_add_balance(l.ub, unmatched[l.id].parsed_amount, TRUE)
       IN IF FlushOk(balance[l.user], l.ubLoaded, cur)
          THEN /\ balance' = [balance EXCEPT
                      ![l.user] = FlushBalance(balance[l.user], l.ubLoaded, cur)]
               /\ CommitCredit(l.user, unmatched[l.id].parsed_amount)
               /\ Goto(p, "simple_match_commit", [l EXCEPT !.ub = cur, !.ubLoaded = cur])
          ELSE /\ Raise(p, l)
               /\ UNCHANGED <<balance, committed>>
    /\ UNCHANGED <<charges, usages, auditLogs, rateLogs, intake, refunds, now, nops>>

\* The unmatched deposit is set matched and committed.
simple_match_commit(p) ==
    /\ pc[p] = "simple_match_commit"
    /\ unmatched' = [unmatched EXCEPT ![loc[p].id].status = "matched",
                                      ![loc[p].id].matched_user_id = loc[p].user]
    /\ Finish(p, "SUCCESS", loc[p])
    /\ UNCHANGED <<ledger, rateLogs, deposits, smsLogs, refunds, now, nops>>

\* ------------------------- routers/payments.py POST /refund/request (RequestRefund)
\* RefundRequestCreate.validate_refund_amount
MinRefundAmount == 1000
MaxRefundAmount == 1000000

\* The user's pending refund requests.
pending_refund_requests(user) ==
    {i \in 1..Len(refunds) : refunds[i].user_id = user /\ refunds[i].status = "pending"}

\* create_refund_request, get_user_refundable_amount's first select: without
\* a balance row can_request_refund is False.
create_refund_request(p, user, amount) ==
    /\ pc[p] = "idle"
    /\ amount > 0
    /\ nops' = nops + 1
    /\ LET l == Begin("refund_request", user, amount)
           row == balance[user]
       IN IF amount < MinRefundAmount \/ amount > MaxRefundAmount
          THEN Finish(p, "UNPROCESSABLE", l)
          ELSE IF ~row.exists
          THEN Finish(p, "ALREADY_PENDING", l)
          ELSE Goto(p, "has_pending_refund_request",
                    [l EXCEPT !.hasUb = TRUE, !.ub = row, !.ubLoaded = row])
    /\ UNCHANGED <<tables, now>>

\* has_pending_refund_request (scalar_one_or_none raises on two pending
\* rows), then the checks of the amount.
has_pending_refund_request(p) ==
    /\ pc[p] = "has_pending_refund_request"
    /\ LET l == loc[p]
           pending == pending_refund_requests(l.user)
       IN IF Cardinality(pending) > 1
          THEN Finish(p, "INTERNAL_ERROR", l)
          ELSE IF pending # {}
          THEN Finish(p, "ALREADY_PENDING", l)
          ELSE IF l.amount > l.ub.refundable_balance
          THEN Finish(p, "EXCEEDS_REFUNDABLE", l)
          ELSE IF l.amount < MinRefundAmount
          THEN Finish(p, "BELOW_MINIMUM", l)
          ELSE Goto(p, "refund_request_insert", l)
    /\ UNCHANGED <<tables, now, nops>>

\* The pending row is inserted and committed.
refund_request_insert(p) ==
    /\ pc[p] = "refund_request_insert"
    /\ refunds' = Append(refunds,
          [user_id |-> loc[p].user, refund_amount |-> loc[p].amount, status |-> "pending",
           processed_at |-> -1, admin_memo |-> "none"])
    /\ Finish(p, "SUCCESS", [loc[p] EXCEPT !.id = Len(refunds) + 1])
    /\ UNCHANGED <<ledger, rateLogs, intake, now, nops>>

\* ------------------------- routers/admin.py refund approve / reject (DecideRefund)
\* approve_refund_request: get_refund_request loads the request and
\* approve_refund_new checks the status of the loaded object.
approve_refund_request(p, refund_request_id, memo) ==
    /\ pc[p] = "idle"
    /\ nops' = nops + 1
    /\ LET l == [Begin("approve", "none", 0) EXCEPT !.id = refund_request_id, !.memo = memo]
       IN IF refund_request_id \notin 1..Len(refunds)
          THEN Finish(p, "NOT_FOUND", l)
          ELSE IF refunds[refund_request_id].status # "pending"
          THEN Finish(p, "ALREADY_PROCESSED", l)
          ELSE Goto(p, "approve_refund_new",
                    [l EXCEPT !.user = refunds[refund_request_id].user_id,
                              !.amount = refunds[refund_request_id].refund_amount,
                              !.status = refunds[refund_request_id].status])
    /\ UNCHANGED <<tables, now>>

\* Variant: the refundable balance is not compared with the amount.
approve_refund_new_unchecked(p) ==
    /\ pc[p] = "approve_refund_new"
    /\ LET l == loc[p]
           row == balance[l.user]
       IN IF ~row.exists
          THEN Finish(p, "BAD_REQUEST", l)
          ELSE Goto(p, "approve_refund_commit",
                    [l EXCEPT !.hasUb = TRUE, !.ub = row, !.ubLoaded = row])
    /\ UNCHANGED <<tables, now, nops>>

\* approve_refund_new: the balance row is loaded and checked against the amount.
approve_refund_new(p) ==
    /\ pc[p] = "approve_refund_new"
    /\ LET l == loc[p]
           row == balance[l.user]
       IN IF ~row.exists
          THEN Finish(p, "BAD_REQUEST", l)
          ELSE IF row.refundable_balance < l.amount
          THEN Finish(p, "INSUFFICIENT_REFUNDABLE", l)
          ELSE Goto(p, "approve_refund_commit",
                    [l EXCEPT !.hasUb = TRUE, !.ub = row, !.ubLoaded = row])
    /\ UNCHANGED <<tables, now, nops>>

\* Variant: the refund is taken as a Deduct takes its amount.
approve_debit_as_deduct(ub, amount) == UserBalance_deduct_balance(ub, amount)

\* What approve_refund_new writes on the loaded balance object.
approve_debit(ub, amount) ==
    [ub EXCEPT !.refundable_balance = @ - amount, !.total_balance = @ - amount]

\* One commit: the balance, the usage row of type refund, and the request
\* (UPDATE ... WHERE refund_request_id = id) set approved.
approve_refund_commit(p) ==
    /\ pc[p] = "approve_refund_commit"
    /\ LET l == loc[p]
           cur == approve_debit(l.ub, l.amount)
       IN IF FlushOk(balance[l.user], l.ubLoaded, cur)
          THEN /\ balance' = [balance EXCEPT
                      ![l.user] = FlushBalance(balance[l.user], l.ubLoaded, cur)]
               /\ CommitDebit(l.user, l.amount)
               /\ usages' = Append(usages,
                      [user_id |-> l.user, amount |-> l.amount,
                       service_type |-> "refund", service_id |-> l.id])
               /\ refunds' = [refunds EXCEPT ![l.id].status = "approved",
                                             ![l.id].processed_at = now,
                                             ![l.id].admin_memo = l.memo]
               /\ Finish(p, "SUCCESS", [l EXCEPT !.ub = cur])
          ELSE /\ Finish(p, "INTERNAL_ERROR", l)
               /\ UNCHANGED <<balance, committed, usages, refunds>>
    /\ UNCHANGED <<charges, auditLogs, rateLogs, intake, now, nops>>

\* reject_refund_request: the memo is required; get_refund_request loads the
\* request and reject_refund_new checks the status of the loaded object.
reject_refund_request(p, refund_request_id, memo) ==
    /\ pc[p] = "idle"
    /\ nops' = nops + 1
    /\ LET l == [Begin("reject", "none", 0) EXCEPT !.id = refund_request_id, !.memo = memo]
       IN IF memo = "none"
          THEN Finish(p, "BAD_REQUEST", l)
          ELSE IF refund_request_id \notin 1..Len(refunds)
          THEN Finish(p, "NOT_FOUND", l)
          ELSE IF refunds[refund_request_id].status # "pending"
          THEN Finish(p, "ALREADY_PROCESSED", l)
          ELSE Goto(p, "reject_refund_new",
                    [l EXCEPT !.user = refunds[refund_request_id].user_id,
                              !.amount = refunds[refund_request_id].refund_amount,
                              !.status = refunds[refund_request_id].status])
    /\ UNCHANGED <<tables, now>>

\* Variant: the rejection returns without writing the request.
reject_refund_new_unwritten(p) ==
    /\ pc[p] = "reject_refund_new"
    /\ Finish(p, "SUCCESS", loc[p])
    /\ UNCHANGED <<tables, now, nops>>

\* reject_refund_new: the request is set rejected and committed.
reject_refund_new(p) ==
    /\ pc[p] = "reject_refund_new"
    /\ refunds' = [refunds EXCEPT ![loc[p].id].status = "rejected",
                                  ![loc[p].id].processed_at = now,
                                  ![loc[p].id].admin_memo = loc[p].memo]
    /\ Finish(p, "SUCCESS", loc[p])
    /\ UNCHANGED <<ledger, rateLogs, intake, now, nops>>

\* ------------------------------------------------------- specifications
\* The steps of a request in flight that run whatever the other sessions do.
Step(p) ==
    \/ create_user_balance(p)
    \/ refresh_user_balance(p)
    \/ record_balance_deduct_action(p)
    \/ create_rate_limit_log(p)
    \/ deduct_balance(p)
    \/ crud_deduct_balance(p)
    \/ deduct_balance_log(p)
    \/ process_review_credit(p)
    \/ manual_charge_user(p)
    \/ manual_charge_update(p)
    \/ generate_check_rate_limit(p)
    \/ create_deposit_request(p)
    \/ generate_unique_deposit_name(p)
    \/ create_deposit_insert(p)
    \/ create_sms_log(p)
    \/ match_deposit(p)
    \/ process_matched_deposit(p)
    \/ process_payment(p)
    \/ mark_deposit_completed(p)
    \/ process_payment_charge(p)
    \/ process_payment_update(p)
    \/ process_payment_log(p)
    \/ handle_unmatched_deposit(p)
    \/ create_unmatched_deposit(p)
    \/ manual_match_charge(p)
    \/ manual_match_log(p)
    \/ manual_match_commit(p)
    \/ simple_match_charge(p)
    \/ simple_match_update(p)
    \/ simple_match_commit(p)
    \/ has_pending_refund_request(p)
    \/ refund_request_insert(p)
    \/ approve_refund_new(p)
    \/ approve_refund_commit(p)
    \/ reject_refund_new(p)

\* The SMS texts that arrive: two formats of one deposit to u1's name (the
\* same amount, name and instant), a later deposit to that name, a deposit
\* under a stranger's name, a deposit of 0 won and a text of no known format.
RawMessages ==
    {[format |-> "woori", time |-> 600, amount |-> 1000, name |-> <<"u1", "0001">>],
     [format |-> "generic", time |-> 60, amount |-> 1000, name |-> <<"u1", "0001">>],
     [format |-> "woori", time |-> 700, amount |-> 2000, name |-> <<"u1", "0001">>],
     [format |-> "generic", time |-> 60, amount |-> 500, name |-> <<"kim", "0000">>],
     [format |-> "generic", time |-> 60, amount |-> 0, name |-> <<"kim", "0000">>],
     [format |-> "advert", time |-> 0, amount |-> 0, name |-> NoName]}

\* Amounts a Deduct request asks for: the whole balance, one more, and a part.
DeductAmounts(user) ==
    {a \in {balance[user].total_balance, balance[user].total_balance + 1, 300, 1200} : a > 0}

\* One session: requests are handled one at a time.
SeqNext ==
    \/ Step(1)
    \/ nops < MaxSeqOps /\ \E a \in DeductAmounts("u1") : check_balance_deduct_limit(1, "u1", a)
    \/ nops < MaxSeqOps /\ \E t \in BOOLEAN : create_place_review(1, "u1", t, FALSE)
    \/ nops < MaxSeqOps /\ \E r \in BOOLEAN : process_manual_charge(1, "single_user", "u1", 1000, r)
    \/ nops < MaxSeqOps /\ process_manual_charge(1, "all_users", "none", 1000, TRUE)
    \/ nops < MaxSeqOps /\ generate_deposit_name(1, "u1")
    \/ nops < MaxSeqOps /\ \E raw \in RawMessages : parse_sms_message(1, raw)
    \/ nops < MaxSeqOps /\ \E a \in {500, 1000} : match_deposit_manually(1, 1, "u1", a)
    \/ nops < MaxSeqOps /\ \E a \in {500, 1000} : simple_match_deposit(1, "u1", <<"kim", "0000">>, a)
    \/ nops < MaxSeqOps /\ \E a \in {500, 1000} : create_refund_request(1, "u1", a)
    \/ nops < MaxSeqOps /\ approve_refund_request(1, 1, "none")
    \/ nops < MaxSeqOps /\ \E m \in {"none", "m1"} : reject_refund_request(1, 1, m)

Spec == Init /\ [][SeqNext]_vars

\* Concurrent sessions.  The balance row is created and refreshed by the
\* first credit of a user in each of the three scenarios.
BalanceStep(p) ==
    \/ create_user_balance(p)
    \/ refresh_user_balance(p)

\* Deposits to one name: a request is generated and two deposits to its
\* name, of different amounts and times, are reported while sessions overlap.
MaxSmsOps == 3

SmsStep(p) ==
    \/ BalanceStep(p)
    \/ generate_check_rate_limit(p)
    \/ create_deposit_request(p)
    \/ generate_unique_deposit_name(p)
    \/ create_deposit_insert(p)
    \/ create_sms_log(p)
    \/ match_deposit(p)
    \/ process_matched_deposit(p)
    \/ process_payment(p)
    \/ mark_deposit_completed(p)
    \/ process_payment_charge(p)
    \/ process_payment_update(p)
    \/ process_payment_log(p)
    \/ process_payment_failed(p)
    \/ handle_unmatched_deposit(p)
    \/ create_unmatched_deposit(p)

SmsMessages == {raw \in RawMessages : raw.format = "woori"}

SmsNext ==
    \E p \in Procs :
        \/ SmsStep(p)
        \/ nops < MaxSmsOps /\ generate_deposit_name(p, "u1")
        \/ nops < MaxSmsOps /\ \E raw \in SmsMessages : parse_sms_message(p, raw)

SmsSpec == Init /\ [][SmsNext]_vars

\* The same with the event loop's scheduling: a handler in flight is resumed
\* until it returns.  Nothing obliges a new request to arrive.
SmsLiveSpec == SmsSpec /\ \A p \in Procs : WF_vars(SmsStep(p))

\* Refund decisions: a user is credited and asks for a refund, and two
\* administrators decide the request while their sessions overlap.
MaxRefundOps == 4

RefundStep(p) ==
    \/ BalanceStep(p)
    \/ manual_charge_user(p)
    \/ manual_charge_update(p)
    \/ has_pending_refund_request(p)
    \/ refund_request_insert(p)
    \/ approve_refund_new(p)
    \/ approve_refund_commit(p)
    \/ reject_refund_new(p)

RefundNext ==
    \E p \in Procs :
        \/ RefundStep(p)
        \/ nops < MaxRefundOps /\ process_manual_charge(p, "single_user", "u1", 1000, TRUE)
        \/ nops < MaxRefundOps /\ create_refund_request(p, "u1", 1000)
        \/ nops < MaxRefundOps /\ approve_refund_request(p, 1, "none")
        \/ nops < MaxRefundOps /\ reject_refund_request(p, 1, "m1")

RefundSpec == Init /\ [][RefundNext]_vars

\* The ledger of one user: credits to either pool, Deducts and the approval
\* of a refund while sessions overlap.
MaxLedgerOps == 4

LedgerStep(p) ==
    \/ BalanceStep(p)
    \/ manual_charge_user(p)
    \/ manual_charge_update(p)
    \/ record_balance_deduct_action(p)
    \/ create_rate_limit_log(p)
    \/ deduct_balance(p)
    \/ crud_deduct_balance(p)
    \/ deduct_balance_log(p)
    \/ has_pending_refund_request(p)
    \/ refund_request_insert(p)
    \/ approve_refund_new(p)
    \/ approve_refund_commit(p)

LedgerNext ==
    \E p \in Procs :
        \/ LedgerStep(p)
        \/ nops < MaxLedgerOps /\ \E r \in BOOLEAN : process_manual_charge(p, "single_user", "u1", 1000, r)
        \/ nops < MaxLedgerOps /\ check_balance_deduct_limit(p, "u1", 300)
        \/ nops < MaxLedgerOps /\ create_refund_request(p, "u1", 1000)
        \/ nops < MaxLedgerOps /\ approve_refund_request(p, 1, "none")

LedgerSpec == Init /\ [][LedgerNext]_vars

\* Refund approvals: a user is credited once and asks for refunds from two
\* sessions, and two administrators approve the requests on record while
\* their sessions overlap.
MaxApproveOps == 5

ApproveStep(p) ==
    \/ BalanceStep(p)
    \/ manual_charge_user(p)
    \/ manual_charge_update(p)
    \/ has_pending_refund_request(p)
    \/ refund_request_insert(p)
    \/ approve_refund_new(p)
    \/ approve_refund_commit(p)

ApproveNext ==
    \E p \in Procs :
        \/ ApproveStep(p)
        \/ /\ nops < MaxApproveOps /\ charges = <<>>
           /\ process_manual_charge(p, "single_user", "u1", 1000, TRUE)
        \/ nops < MaxApproveOps /\ create_refund_request(p, "u1", 1000)
        \/ /\ nops < MaxApproveOps
           /\ \E id \in 1..Len(refunds) : approve_refund_request(p, id, "none")

ApproveSpec == Init /\ [][ApproveNext]_vars

\* The clock: a minute passes, or the lifetime of a deposit request.
MaxTime == 2

Tick ==
    /\ now < MaxTime
    /\ \E d \in {1, DepositLifetime} : now' = now + d
    /\ UNCHANGED <<tables, pc, loc, res, nops>>

\* Deposit requests: a user asks for a deposit name from two sessions
\* while time passes.
MaxGenerateOps == 3

GenerateStep(p) ==
    \/ generate_check_rate_limit(p)
    \/ create_deposit_request(p)
    \/ generate_unique_deposit_name(p)
    \/ create_deposit_insert(p)

GenerateNext ==
    \/ Tick
    \/ \E p \in Procs :
           \/ GenerateStep(p)
           \/ nops < MaxGenerateOps /\ generate_deposit_name(p, "u1")

GenerateSpec == Init /\ [][GenerateNext]_vars

\* Unmatched deposits: a deposit nobody asked for is reported, and an admin
\* and the user resolve it from two sessions.
MaxMatchOps == 3

MatchStep(p) ==
    \/ BalanceStep(p)
    \/ create_sms_log(p)
    \/ match_deposit(p)
    \/ handle_unmatched_deposit(p)
    \/ create_unmatched_deposit(p)
    \/ manual_match_charge(p)
    \/ manual_match_log(p)
    \/ manual_match_commit(p)
    \/ simple_match_charge(p)
    \/ simple_match_update(p)
    \/ simple_match_commit(p)

StrayMessage == [format |-> "generic", time |-> 60, amount |-> 500, name |-> <<"kim", "0000">>]

MatchNext ==
    \E p \in Procs :
        \/ MatchStep(p)
        \/ nops < MaxMatchOps /\ parse_sms_message(p, StrayMessage)
        \/ nops < MaxMatchOps /\ match_deposit_manually(p, 1, "u1", StrayMessage.amount)
        \/ nops < MaxMatchOps
              /\ simple_match_deposit(p, "u1", StrayMessage.name, StrayMessage.amount)

MatchSpec == Init /\ [][MatchNext]_vars

\* The rate limit of Deduct: one session, a user who was credited once asks
\* for more deductions than a minute allows, while time passes.
MaxRateOps == 12

RateStep(p) ==
    \/ BalanceStep(p)
    \/ manual_charge_user(p)
    \/ manual_charge_update(p)
    \/ record_balance_deduct_action(p)
    \/ create_rate_limit_log(p)
    \/ deduct_balance(p)
    \/ crud_deduct_balance(p)
    \/ deduct_balance_log(p)

RateNext ==
    \/ Tick
    \/ RateStep(1)
    \/ nops < MaxRateOps /\ charges = <<>>
          /\ process_manual_charge(1, "single_user", "u1", 1000, TRUE)
    \/ nops < MaxRateOps /\ check_balance_deduct_limit(1, "u1", 50)

RateSpec == Init /\ [][RateNext]_vars

\* The limiter under load: a user without a balance row calls Deduct again and
\* again while time passes, and at the boundary, with one attempt left, a
\* second session's call arrives while one of the first session's is in
\* flight; every call is checked and recorded and then ends for want of a
\* balance.
MaxLoadOps == 11

LoadStep(p) ==
    \/ record_balance_deduct_action(p)
    \/ create_rate_limit_log(p)
    \/ deduct_balance(p)

LoadNext ==
    \/ Tick
    \/ LoadStep(1)
    \/ LoadStep(2)
    \/ nops < MaxLoadOps /\ check_balance_deduct_limit(1, "u1", 50)
    \/ nops < MaxLoadOps /\ pc[1] # "idle"
          /\ check_rate_limit_result("u1", "balance_deduct").remaining_attempts = 1
          /\ check_balance_deduct_limit(2, "u1", 50)

LoadSpec == Init /\ [][LoadNext]_vars

\* Repeated refund requests: one session, a user who was credited once asks
\* for a refund again each time an admin has rejected the last request.
MaxRequestOps == 8

RequestStep(p) ==
    \/ BalanceStep(p)
    \/ manual_charge_user(p)
    \/ manual_charge_update(p)
    \/ has_pending_refund_request(p)
    \/ refund_request_insert(p)
    \/ reject_refund_new(p)

RequestNext ==
    \/ RequestStep(1)
    \/ nops < MaxRequestOps /\ charges = <<>>
          /\ process_manual_charge(1, "single_user", "u1", 1000, TRUE)
    \/ nops < MaxRequestOps /\ \E a \in {500, 1000} : create_refund_request(1, "u1", a)
    \/ nops < MaxRequestOps
          /\ \E id \in 1..Len(refunds) : reject_refund_request(1, id, "m1")

RequestSpec == Init /\ [][RequestNext]_vars

\* Deposits one request at a time: a user asks for deposit names and the
\* bank reports deposits, while time passes.
MaxDepositOps == 3

DepositStep(p) ==
    \/ BalanceStep(p)
    \/ GenerateStep(p)
    \/ create_sms_log(p)
    \/ match_deposit(p)
    \/ process_matched_deposit(p)
    \/ process_payment(p)
    \/ mark_deposit_completed(p)
    \/ process_payment_charge(p)
    \/ process_payment_update(p)
    \/ process_payment_log(p)
    \/ handle_unmatched_deposit(p)
    \/ create_unmatched_deposit(p)

DepositNext ==
    \/ Tick
    \/ DepositStep(1)
    \/ nops < MaxDepositOps /\ generate_deposit_name(1, "u1")
    \/ nops < MaxDepositOps /\ \E raw \in SmsMessages : parse_sms_message(1, raw)

DepositSpec == Init /\ [][DepositNext]_vars


\* The expiry sweep: users ask for names and the bank reports deposits while
\* time passes, one request at a time, and two administrators run the cleanup
\* of deposit requests at any moment, also in the middle of such a request.
MaxSweepOps == 5

\* The bank's text about a deposit to u1's first name.
DepositMessage ==
    [format |-> "woori", time |-> 600, amount |-> 1000, name |-> <<"u1", "0001">>]

SweepNext ==
    \/ Tick
    \/ DepositStep(1)
    \/ \E p \in Procs : nops < MaxSweepOps /\ expire_old_deposits(p)
    \/ \E u \in Users : nops < MaxSweepOps /\ generate_deposit_name(1, u)
    \/ nops < MaxSweepOps /\ parse_sms_message(1, DepositMessage)

SweepSpec == Init /\ [][SweepNext]_vars


\* ------------------------------------------------------------ properties
\* The request session p handled last was a call of op, and it has returned.
Returned(p, op) == pc[p] = "idle" /\ res[p].op = op

\* A ledger row is valid: the total is the sum of the pools, none negative.
LedgerRowValid(row) ==
    /\ row.total_balance = row.refundable_balance + row.non_refundable_balance
    /\ row.total_balance >= 0
    /\ row.refundable_balance >= 0
    /\ row.non_refundable_balance >= 0

\* The call returned because the store refused its write to the ledger.
WriteRefused(r) ==
    \/ r.op \in {"deduct", "manual_match", "approve"} /\ r.code = "INTERNAL_ERROR"
    \/ r.op = "review" /\ r.code = "CREDIT_FAILED"
    \/ r.op = "admin_charge" /\ r.failed_count > 0
    \/ r.op = "sms" /\ r.code = "PAYMENT_FAILED"
    \/ r.op = "simple_match" /\ r.code = "MATCH_FAILED"

\* C1: when the ledger operations (credit by automatic, manual and simple
\* match, admin charge, review reward, Deduct, refund approve) run one at a
\* time, every ledger row has total_balance = refundable_balance +
\* non_refundable_balance with all three >= 0 in every state, and none of
\* the operations has its write refused by the table's constraints.
C1_LedgerInvariant ==
    /\ \A u \in Users : LedgerRowValid(balance[u])
    /\ pc[1] = "idle" => ~WriteRefused(res[1])

\* C1 happens: a refund was approved and debited for a user who was
\* credited in both pools.
C1_Witness ==
    /\ Returned(1, "approve") /\ res[1].code = "SUCCESS"
    /\ balance["u1"].non_refundable_balance > 0
    /\ committed["u1"].debited > 0
    /\ committed["u1"].credited > committed["u1"].debited


\* The logs of the text the call brought, among those stored before it.
StoredBefore(r) ==
    {i \in 1..r.pre.smsLogs : smsLogs[i].raw_message = r.raw}

\* The call created no SMS log, unmatched deposit or charge row and left
\* every balance as it was.
NothingIngested(r) ==
    /\ Len(smsLogs) = r.pre.smsLogs
    /\ unmatched = r.pre.unmatched
    /\ Len(charges) = r.pre.charges
    /\ balance = r.pre.balance

ParsedNew(r) ==
    /\ parse_bank_sms_format(r.raw).success
    /\ r.amount > 0
    /\ \A i \in 1..r.pre.smsLogs :
           \/ smsLogs[i].parsed_amount # r.amount
           \/ smsLogs[i].parsed_name # r.name
           \/ smsLogs[i].parsed_time # r.time

\* C3: when the payer name of a parsed SMS is the deposit name of a pending
\* deposit request, the ingestion marks the request completed, appends one
\* charge row of the SMS's amount, refundable, and raises the owner's
\* total_balance and refundable_balance by that amount, whatever the
\* request's own amount field says.
C3_MatchCreditsParsedAmount ==
    \A d \in 1..Len(res[1].pre.deposits) :
        LET r == res[1]
            owner == r.pre.deposits[d].user_id
            before == r.pre.balance[owner]
        IN (/\ Returned(1, "sms") /\ ParsedNew(r)
            /\ r.pre.deposits[d].deposit_name = r.name
            /\ r.pre.deposits[d].status = "pending") =>
               /\ r.code = "auto_charged"
               /\ deposits[d].status = "completed"
               /\ Len(charges) = r.pre.charges + 1
               /\ charges[Len(charges)].user_id = owner
               /\ charges[Len(charges)].amount = r.amount
               /\ charges[Len(charges)].is_refundable
               /\ charges[Len(charges)].deposit_request_id = d
               /\ balance[owner].total_balance = before.total_balance + r.amount
               /\ balance[owner].refundable_balance = before.refundable_balance + r.amount
               /\ balance[owner].non_refundable_balance = before.non_refundable_balance

\* C3 happens: a deposit of an amount other than the request's amount field
\* was matched to the pending request and credited.
C3_Witness ==
    /\ Returned(1, "sms") /\ res[1].code = "auto_charged"
    /\ res[1].pre.deposits[res[1].id].status = "pending"
    /\ res[1].pre.deposits[res[1].id].amount # res[1].amount
    /\ balance["u1"].refundable_balance >= res[1].amount

\* The call decided a request that exists.
Decided(r) == r.id \in 1..Len(r.pre.refunds)

\* What approve does to a pending request of a user who holds the amount.
Approved(r) ==
    LET q == r.pre.refunds[r.id]
        before == r.pre.balance[q.user_id]
        after == balance[q.user_id]
    IN /\ r.code = "SUCCESS"
       /\ after.refundable_balance = before.refundable_balance - q.refund_amount
       /\ after.total_balance = before.total_balance - q.refund_amount
       /\ after.non_refundable_balance = before.non_refundable_balance
       /\ refunds[r.id].status = "approved"
       /\ refunds[r.id].processed_at # -1

\* A later approve, or reject with its memo, of an approved request.
LaterDecision(r) ==
    /\ \/ Returned(1, "approve")
       \/ Returned(1, "reject") /\ r.memo # "none"
    /\ Decided(r)
    /\ r.pre.refunds[r.id].status = "approved"

AlreadyProcessed(r) ==
    /\ r.code = "ALREADY_PROCESSED"
    /\ balance = r.pre.balance
    /\ refunds = r.pre.refunds

\* C5: approve of a pending refund request of amount A whose user holds a
\* refundable_balance >= A lowers refundable_balance and total_balance by A,
\* leaves non_refundable_balance, and sets the request approved with
\* processed_at; when the user holds less, approve fails and changes
\* nothing; any later approve or reject of the approved request fails with
\* AlreadyProcessed and leaves the ledger and the request unchanged.
C5_ApproveDebitsOnce ==
    LET r == res[1] IN
    /\ (Returned(1, "approve") /\ Decided(r) /\ r.pre.refunds[r.id].status = "pending") =>
           IF r.pre.balance[r.pre.refunds[r.id].user_id].refundable_balance
                  >= r.pre.refunds[r.id].refund_amount
           THEN Approved(r)
           ELSE /\ r.code = "INSUFFICIENT_REFUNDABLE"
                /\ balance = r.pre.balance
                /\ refunds = r.pre.refunds
    /\ LaterDecision(r) => AlreadyProcessed(r)

\* C5 happens: an approved and debited request is decided again.
C5_Witness ==
    /\ LaterDecision(res[1])
    /\ res[1].code = "ALREADY_PROCESSED"
    /\ committed["u1"].debited = refunds[res[1].id].refund_amount

\* C5 as stated: approve of any pending request debits its amount.
C5_ApproveAlwaysDebits ==
    LET r == res[1] IN
    /\ (Returned(1, "approve") /\ Decided(r) /\ r.pre.refunds[r.id].status = "pending") =>
           Approved(r)
    /\ LaterDecision(r) => AlreadyProcessed(r)


C10_NonRefundableFirst ==
    LET r == res[1]
        before == r.pre.balance[r.user]
        after == balance[r.user]
        n == Min(r.amount, before.non_refundable_balance)
    IN (Returned(1, "deduct") /\ r.code = "SUCCESS") =>
           /\ after.non_refundable_balance = before.non_refundable_balance - n
           /\ after.refundable_balance = before.refundable_balance - (r.amount - n)
           /\ after.refundable_balance < before.refundable_balance
                  => r.amount > before.non_refundable_balance

\* C10 happens: the amount used up the non-refundable pool and took the rest
\* from a refundable pool that could have paid all of it.
C10_Witness ==
    LET r == res[1]
        before == r.pre.balance[r.user]
    IN /\ Returned(1, "deduct") /\ r.code = "SUCCESS"
       /\ before.non_refundable_balance > 0
       /\ r.amount > before.non_refundable_balance
       /\ r.amount <= before.refundable_balance
       /\ balance[r.user].non_refundable_balance = 0


\* The charge rows that credit deposit request d.
CreditsOf(d) ==
    {i \in 1..Len(charges) :
        charges[i].source_type = "deposit" /\ charges[i].deposit_request_id = d}

\* C4: each deposit request is credited at most once: in every state, also
\* when two SMS of one payer name are processed one after the other or at
\* the same time, at most one charge row exists for a deposit request.
C4_OneCreditPerDeposit ==
    \A d \in 1..Len(deposits) : Cardinality(CreditsOf(d)) <= 1

\* The decisions (approve, or reject with its memo) of request 1 that have
\* returned, one per session.
Decisions ==
    {p \in Procs :
        /\ pc[p] = "idle"
        /\ res[p].op \in {"approve", "reject"}
        /\ res[p].id = 1
        /\ Decided(res[p])}

\* C6: when two sessions decide the same pending refund request (approve and
\* approve, or approve and reject), one call succeeds and the other fails
\* with AlreadyProcessed; the ledger is debited at most once, and only if
\* the request ends approved.
C6_OneDecisionWins ==
    /\ (Decisions = Procs /\ \E p \in Procs : res[p].op = "approve") =>
           \E p \in Procs :
               /\ res[p].code = "SUCCESS"
               /\ \A q \in Procs \ {p} : res[q].code = "ALREADY_PROCESSED"
    /\ \A i \in 1..Len(refunds) :
           LET debits == {j \in 1..Len(usages) :
                             /\ usages[j].service_type = "refund"
                             /\ usages[j].user_id = refunds[i].user_id}
           IN /\ committed[refunds[i].user_id].debited <= refunds[i].refund_amount
              /\ Cardinality(debits) <= 1
              /\ committed[refunds[i].user_id].debited > 0 => refunds[i].status = "approved"

\* C7: whatever the interleaving of credits, Deducts and refund approvals
\* of one user, every committed ledger row has total_balance =
\* refundable_balance + non_refundable_balance and no negative balance.
C7_CommittedLedgerValid ==
    \A u \in Users : LedgerRowValid(balance[u])

\* C7 happens: a Deduct that overlapped a credit to the other pool came to
\* write a row the credit had changed, and the table refused it.
C7_Witness ==
    \E p \in Procs :
        /\ Returned(p, "deduct") /\ res[p].code = "INTERNAL_ERROR"
        /\ balance[res[p].user] # res[p].pre.balance[res[p].user]
        /\ LedgerRowValid(balance[res[p].user])

\* C8: no update is lost: in every state a user's total_balance is the sum
\* of the amounts credited minus the sum of the amounts debited by the
\* calls that succeeded.
C8_NoLostUpdate ==
    \A u \in Users :
        balance[u].total_balance = committed[u].credited - committed[u].debited


\* The user's requests that are pending and have not expired.
ActiveRequests(user) ==
    {i \in 1..Len(deposits) :
        /\ deposits[i].user_id = user
        /\ deposits[i].status = "pending"
        /\ deposits[i].expires_at > now}

\* Session p takes the step that receives a generate call of the user.
GenerateCalled(p, user) ==
    /\ pc[p] = "idle"
    /\ nops' = nops + 1
    /\ \/ /\ pc'[p] = "idle" /\ res'[p] # res[p]
          /\ res'[p].op = "generate" /\ res'[p].user = user
       \/ pc'[p] # "idle" /\ loc'[p].op = "generate" /\ loc'[p].user = user

\* C11: generate for a user who has a pending request that has not expired
\* returns that request (its id, and so its name and expires_at) in the
\* step that receives the call: no row of any table is created or changed,
\* the rate limit is neither read nor charged, also within the minute of
\* the rate window.
C11_GenerateReturnsActive ==
    [][\A p \in Procs : \A u \in Users :
          (GenerateCalled(p, u) /\ ActiveRequests(u) # {}) =>
              /\ pc'[p] = "idle"
              /\ res'[p].code = "SUCCESS"
              /\ res'[p].id \in ActiveRequests(u)
              /\ \A i \in ActiveRequests(u) :
                    deposits[i].created_at <= deposits[res'[p].id].created_at
              /\ UNCHANGED tables]_vars

\* C11 happens: a second call in the minute of the first got the request
\* the first created, unchanged.
C11_Witness ==
    \E p \in Procs :
        LET r == res[p] IN
        /\ Returned(p, "generate") /\ r.code = "SUCCESS"
        /\ r.id \in 1..Len(r.pre.deposits)
        /\ r.pre.now - r.pre.deposits[r.id].created_at <= 1
        /\ r.pre.deposits[r.id].expires_at > r.pre.now
        /\ deposits[r.id] = r.pre.deposits[r.id]

\* C12: in every state, also after concurrent generate calls of one user,
\* a user has at most one request that is pending and has not expired.
C12_OneActiveRequest ==
    \A u \in Users : Cardinality(ActiveRequests(u)) <= 1


\* The amounts of every unmatched deposit on record.
RECURSIVE ParsedTotal(_)
ParsedTotal(rows) ==
    IF rows = <<>> THEN 0 ELSE Head(rows).parsed_amount + ParsedTotal(Tail(rows))

\* C13: an unmatched deposit is credited at most once, also when the
\* attempts to resolve it overlap: with resolutions for the parsed amount as
\* the only credits, a user is never credited more than the unmatched
\* deposits on record add up to.
C13_UnmatchedCreditedOnce ==
    \A u \in Users : committed[u].credited <= ParsedTotal(unmatched)


\* What the charge rows of a user add up to.
RECURSIVE ChargedTotal(_, _)
ChargedTotal(rows, user) ==
    IF rows = <<>> THEN 0
    ELSE (IF Head(rows).user_id = user THEN Head(rows).amount ELSE 0)
         + ChargedTotal(Tail(rows), user)

Quiescent == \A p \in Procs : pc[p] = "idle"

\* C14: match-and-apply is all-or-nothing: once every request has returned,
\* no deposit request is completed without a credit and the charge rows of
\* a user add up to what was credited to the user's balance.
C14_MatchAppliesAllOrNothing ==
    Quiescent =>
        /\ \A u \in Users : ChargedTotal(charges, u) = committed[u].credited
        /\ \A i \in 1..Len(deposits) :
              deposits[i].status = "completed" => CreditsOf(i) # {}


\* The ledger is as the returned request found it.
LedgerUntouched(r) ==
    /\ balance = r.pre.balance
    /\ Len(charges) = r.pre.charges
    /\ Len(usages) = r.pre.usages
    /\ Len(auditLogs) = r.pre.auditLogs

\* The pending refund requests of the user as the returned request found them.
PendingBefore(r) ==
    {i \in 1..Len(r.pre.refunds) :
        r.pre.refunds[i].user_id = r.user /\ r.pre.refunds[i].status = "pending"}

\* A RequestRefund may succeed: nothing pending, the amount within the
\* refundable balance and not below the minimum.
RefundRequestAllowed(r) ==
    /\ PendingBefore(r) = {}
    /\ r.amount <= r.pre.balance[r.user].refundable_balance
    /\ r.amount >= MinRefundAmount

\* A returned RequestRefund created a pending request exactly when allowed,
\* created nothing otherwise, and left the ledger as it was.
RefundRequestEffect(r) ==
    /\ r.code = "SUCCESS" <=> RefundRequestAllowed(r)
    /\ IF r.code = "SUCCESS"
       THEN /\ Len(refunds) = Len(r.pre.refunds) + 1
            /\ SubSeq(refunds, 1, Len(r.pre.refunds)) = r.pre.refunds
            /\ refunds[Len(refunds)].user_id = r.user
            /\ refunds[Len(refunds)].refund_amount = r.amount
            /\ refunds[Len(refunds)].status = "pending"
       ELSE refunds = r.pre.refunds
    /\ r.code = "EXCEEDS_REFUNDABLE" =>
           r.amount > r.pre.balance[r.user].refundable_balance
    /\ r.code \in {"BELOW_MINIMUM", "UNPROCESSABLE"} => r.amount < MinRefundAmount
    /\ LedgerUntouched(r)

\* C15: RequestRefund creates a pending request if and only if the user has
\* no pending request and the amount is at most the refundable balance and
\* at least 1000; otherwise it fails with the matching error, AlreadyPending
\* only when a pending request exists, and creates nothing; the ledger is
\* unchanged in every case.
C15_RequestRefundContract ==
    \A p \in Procs :
        Returned(p, "refund_request") =>
            /\ RefundRequestEffect(res[p])
            /\ res[p].code = "ALREADY_PENDING" => PendingBefore(res[p]) # {}


\* C16: in every state, also after concurrent RequestRefund calls of one
\* user, a user has at most one refund request with status pending.
C16_OnePendingRefund ==
    \A u \in Users : Cardinality(pending_refund_requests(u)) <= 1


\* C17: the status of a refund request only changes from pending to
\* approved or from pending to rejected; approved and rejected are final
\* and nothing sets completed.
C17_RefundStatusMachine ==
    [][\A i \in 1..Len(refunds) :
          /\ refunds'[i].status # "completed"
          /\ refunds'[i].status # refunds[i].status =>
                /\ refunds[i].status = "pending"
                /\ refunds'[i].status \in {"approved", "rejected"}]_vars


\* The refund request a returned decision named was pending when the call
\* arrived.
WasPending(r) ==
    /\ r.id \in 1..Len(r.pre.refunds)
    /\ r.pre.refunds[r.id].status = "pending"

\* C18: reject on a pending request sets status rejected and processed_at,
\* and changes no balance, usage or audit row; reject without a memo fails
\* and leaves the request as it was, pending if it was pending.
C18_RejectFrame ==
    \A p \in Procs :
        Returned(p, "reject") =>
            LET r == res[p] IN
            /\ LedgerUntouched(r)
            /\ (WasPending(r) /\ r.memo # "none") =>
                   /\ r.code = "SUCCESS"
                   /\ refunds = [r.pre.refunds EXCEPT
                          ![r.id].status = "rejected",
                          ![r.id].processed_at = refunds[r.id].processed_at,
                          ![r.id].admin_memo = r.memo]
                   /\ refunds[r.id].processed_at >= r.pre.now
            /\ r.memo = "none" =>
                   /\ r.code # "SUCCESS"
                   /\ refunds = r.pre.refunds

\* C18 happens: a pending request was rejected with a memo.
C18_Witness ==
    /\ Returned(1, "reject")
    /\ WasPending(res[1])
    /\ res[1].code = "SUCCESS"
    /\ refunds[res[1].id].status = "rejected"
    /\ balance[refunds[res[1].id].user_id].refundable_balance >= refunds[res[1].id].refund_amount


\* The rate-limit entries of a user and an action, among the first n, made
\* in the window that ends at t.
EntriesInWindow(n, user, action, t) ==
    {i \in 1..n :
        /\ rateLogs[i].user_id = user
        /\ rateLogs[i].action_type = action
        /\ rateLogs[i].created_at >= t - RATE_LIMIT_CONFIGS[action].period_minutes
        /\ rateLogs[i].created_at <= t}

\* The times entries were made at: a window holds the most entries when it
\* ends at one of them.
EntryTimes == {rateLogs[i].created_at : i \in 1..Len(rateLogs)}

RefundRequestsOf(user) == {i \in 1..Len(refunds) : refunds[i].user_id = user}

\* C20: RequestRefund is limited to 3 per hour: the fourth call of a user
\* within the hour is denied and creates nothing, so within an hour (the
\* clock does not advance here) a user creates at most 3 refund requests.
C20_FourthRequestLimited ==
    \A u \in Users :
        Cardinality(RefundRequestsOf(u)) <= RATE_LIMIT_CONFIGS["refund_request"].max_attempts


\* The returned generate call created the request it returns.
CreatedRequest(r) ==
    /\ r.op = "generate" /\ r.code = "SUCCESS"
    /\ r.id > Len(r.pre.deposits)

\* The clock when a request row was built: an hour before it expires.
IssuedAt(row) == row.expires_at - DepositLifetime

\* C21, as the code has it: one request at a time, a generate that found no
\* active request and whose user has a request created within the last
\* minute is denied with RateLimited and creates no row; hence a request is
\* issued more than a minute after the creation time of every earlier
\* request of its user.
C21_GenerateRateLimited ==
    /\ Returned(1, "generate") =>
          LET r == res[1] IN
          /\ r.code = "RATE_LIMIT_EXCEEDED" => deposits = r.pre.deposits
          /\ (/\ \A i \in 1..Len(r.pre.deposits) :
                    ~(/\ r.pre.deposits[i].user_id = r.user
                      /\ r.pre.deposits[i].status = "pending"
                      /\ r.pre.deposits[i].expires_at > r.pre.now)
              /\ \E i \in 1..Len(r.pre.deposits) :
                    /\ r.pre.deposits[i].user_id = r.user
                    /\ r.pre.deposits[i].created_at >= now - 1) =>
                 r.code = "RATE_LIMIT_EXCEEDED"
    /\ \A i \in 1..Len(deposits) : \A j \in 1..Len(deposits) :
          (i < j /\ deposits[i].user_id = deposits[j].user_id) =>
              IssuedAt(deposits[j]) > deposits[i].created_at + 1

\* C21 happens: a generate that had to create a request was denied within
\* the minute of the user's last request, and one made later was served.
C21_Witness ==
    /\ Returned(1, "generate")
    /\ res[1].code = "RATE_LIMIT_EXCEEDED"
    /\ \E i \in 1..Len(deposits) :
          deposits[i].status = "completed" /\ deposits[i].created_at >= res[1].pre.now - 1

\* C21 as stated: no user has two requests whose creation times are less
\* than one minute apart.
C21_CreationsAMinuteApart ==
    \A i \in 1..Len(deposits) : \A j \in 1..Len(deposits) :
        (i < j /\ deposits[i].user_id = deposits[j].user_id) =>
            deposits[j].created_at - deposits[i].created_at >= 1


\* C22: an SMS no grammar parses is stored as an SMS row with status failed
\* that carries the raw text, and parse_failed is returned: no input is
\* dropped without a stored record.
C22_UnparsedIsStored ==
    \A p \in Procs :
        (Returned(p, "sms") /\ ~parse_bank_sms_format(res[p].raw).success) =>
            /\ res[p].code = "PARSE_FAILED"
            /\ \E i \in 1..Len(smsLogs) :
                  /\ smsLogs[i].raw_message = res[p].raw
                  /\ smsLogs[i].processing_status = "failed"


\* The stored SMS rows of the (amount, payer name, time) a returned
\* ingestion parsed.
StoredTriple(r) ==
    {i \in 1..Len(smsLogs) :
        /\ smsLogs[i].parsed_amount = r.amount
        /\ smsLogs[i].parsed_name = r.name
        /\ smsLogs[i].parsed_time = r.time}

\* The charge rows automatic matching created.
AutoCredits ==
    {i \in 1..Len(charges) :
        charges[i].source_type = "deposit" /\ charges[i].deposit_request_id # 0}

\* C23: when deliveries of one bank message overlap, at most one SMS row of
\* its (amount, payer name, time) is stored, no more automatic credits exist
\* than SMS rows, and the delivery that stored nothing is reported as duplicate.
C23_ConcurrentDuplicate ==
    /\ \A i \in 1..Len(smsLogs) : \A j \in 1..Len(smsLogs) :
          (/\ smsLogs[i].parsed_amount = smsLogs[j].parsed_amount
           /\ smsLogs[i].parsed_name = smsLogs[j].parsed_name
           /\ smsLogs[i].parsed_time = smsLogs[j].parsed_time) => i = j
    /\ Cardinality(AutoCredits) <= Len(smsLogs)
    /\ \A p \in Procs :
          (/\ Returned(p, "sms")
           /\ res[p].sms_log_id = 0
           /\ StoredTriple(res[p]) # {}) => res[p].code = "duplicate"

\* The rows of pending requests that have not expired, of any user.
ActiveRows ==
    {i \in 1..Len(deposits) :
        deposits[i].status = "pending" /\ deposits[i].expires_at > now}

\* C24: generate never returns a name held by another active (pending, not
\* expired) request, so no two active requests share a name; name generation
\* makes at most max_attempts (100) attempts, and when they are used up the
\* call fails with the name-generation error and creates no request.
C24_UniqueActiveNames ==
    /\ [](/\ \A i \in ActiveRows : \A j \in ActiveRows :
                deposits[i].deposit_name = deposits[j].deposit_name => i = j
          /\ \A p \in Procs : loc[p].attempts <= max_attempts)
    /\ [][\A p \in Procs :
            /\ (/\ pc'[p] = "idle" /\ res'[p] # res[p]
                /\ res'[p].op = "generate" /\ res'[p].code = "SUCCESS") =>
                   \A j \in 1..Len(deposits') :
                       (/\ j # res'[p].id
                        /\ deposits'[j].status = "pending"
                        /\ deposits'[j].expires_at > now') =>
                           deposits'[j].deposit_name # deposits'[res'[p].id].deposit_name
            /\ (pc[p] = "generate_unique_deposit_name" /\ pc'[p] = "idle") =>
                   /\ loc[p].attempts = max_attempts
                   /\ res'[p].code = "VALIDATION_ERROR"
                   /\ deposits' = deposits
            /\ (pc[p] = "generate_unique_deposit_name" /\ pc'[p] = "create_deposit_insert") =>
                   /\ loc[p].attempts < max_attempts
                   /\ loc'[p].name \notin {deposits[i].deposit_name : i \in ActiveRows}
          ]_vars

\* A generate call has used up its attempts on names that were taken and has
\* failed, while another request of the user is active.
C24_Witness ==
    \E p \in Procs :
        /\ Returned(p, "generate") /\ res[p].code = "VALIDATION_ERROR"
        /\ \E i \in ActiveRows : deposits[i].user_id = res[p].user
        /\ deposits = res[p].pre.deposits \/ Len(deposits) > Len(res[p].pre.deposits)

\* C25: a uniqueness conflict on the generated name when the row is inserted
\* (a concurrent request drew the same digits, or the name is still held by
\* a row that is no longer active) is retried with a new name and does not
\* fail the generate call: a call that found the name it drew free among
\* the active requests ends with a request, never with the server error.
C25_ConflictIsRetried ==
    \A p \in Procs :
        Returned(p, "generate") =>
            /\ res[p].code # "INTERNAL_ERROR"
            /\ res[p].name # NoName => res[p].code = "SUCCESS"

\* Session p takes the step that is a run of the expiry sweep.
SweepBy(p) ==
    /\ pc[p] = "idle" /\ pc'[p] = "idle"
    /\ res'[p] # res[p]
    /\ res'[p].op = "cleanup"

\* A request row is pending and past its expires_at.
StalePending(row, t) == row.status = "pending" /\ row.expires_at <= t

\* C26: the expiry sweep changes exactly the requests that are pending with
\* expires_at <= now to expired, leaves every other row as it is and returns
\* the number of rows it changed; a run that directly follows a run, with no
\* time between them, returns 0 and changes nothing; and whichever of several
\* runs comes first, once a run has returned no pending request that was due
\* at its time is left.
C26_ExpirySweep ==
    /\ [](\A p \in Procs :
            (Returned(p, "cleanup") /\ res[p].pre.now = now) =>
                \A i \in 1..Len(deposits) : ~StalePending(deposits[i], now))
    /\ [][\A p \in Procs : SweepBy(p) =>
            /\ res'[p].code = "SUCCESS"
            /\ Len(deposits') = Len(deposits)
            /\ \A i \in 1..Len(deposits) :
                  deposits'[i] = IF StalePending(deposits[i], now)
                                 THEN [deposits[i] EXCEPT !.status = "expired"]
                                 ELSE deposits[i]
            /\ res'[p].rowcount =
                  Cardinality({i \in 1..Len(deposits) : deposits'[i] # deposits[i]})
            /\ UNCHANGED <<ledger, rateLogs, smsLogs, unmatched, refunds>>
            /\ (\E q \in Procs : /\ Returned(q, "cleanup")
                                  /\ res[q].started = nops
                                  /\ res[q].pre.now = now) =>
                  res'[p].rowcount = 0 /\ deposits' = deposits
          ]_vars

\* A run of the sweep has expired a request and left a completed request and
\* a pending request that is not due alone, and the run of the other
\* administrator that followed it at once has returned 0.
C26_Witness ==
    \E p \in Procs : \E q \in Procs :
        /\ Returned(p, "cleanup") /\ res[p].rowcount >= 1
        /\ \E i \in 1..Len(res[p].pre.deposits) :
              /\ res[p].pre.deposits[i].status = "completed"
              /\ deposits[i].status = "completed"
        /\ \E i \in 1..Len(res[p].pre.deposits) :
              /\ StalePending(res[p].pre.deposits[i], res[p].pre.now)
              /\ deposits[i].status = "expired"
        /\ p # q /\ Returned(q, "cleanup")
        /\ res[q].started = res[p].started + 1
        /\ res[q].pre.now = res[p].pre.now
        /\ res[q].rowcount = 0

Missed(r) ==
    /\ r.op = "sms" /\ r.sms_log_id # 0
    /\ \A i \in 1..Len(r.pre.deposits) :
          r.pre.deposits[i].status = "pending" =>
              r.pre.deposits[i].deposit_name # parse_bank_sms_format(r.raw).deposit_name

\* C28: one request at a time, an ingestion whose SMS matches no pending
\* request (a miss) creates exactly one UnmatchedTransaction with the amount,
\* payer name and time of the SMS, marks the SMS log processed, changes no
\* balance and no charge, and returns unmatched with the id of the new row.
C28_MissParksDeposit ==
    (Returned(1, "sms") /\ Missed(res[1])) =>
        LET r == res[1]
            parsed == parse_bank_sms_format(r.raw)
        IN /\ r.code = "unmatched"
           /\ Len(unmatched) = Len(r.pre.unmatched) + 1
           /\ SubSeq(unmatched, 1, Len(r.pre.unmatched)) = r.pre.unmatched
           /\ r.id = Len(unmatched)
           /\ unmatched[r.id].parsed_amount = parsed.amount
           /\ unmatched[r.id].parsed_name = parsed.deposit_name
           /\ unmatched[r.id].parsed_time = parsed.transaction_time
           /\ unmatched[r.id].status = "unmatched"
           /\ smsLogs[r.sms_log_id].processing_status = "processed"
           /\ balance = r.pre.balance
           /\ Len(charges) = r.pre.charges
           /\ deposits = r.pre.deposits

\* A miss has happened while a request of another name was pending and a
\* user had a balance.
C28_Witness ==
    /\ Returned(1, "sms") /\ Missed(res[1])
    /\ res[1].code = "unmatched"
    /\ \E u \in Users : balance[u].exists /\ balance[u].total_balance > 0

\* C29: after a successful automatic match the SMS log has status processed
\* and its matched_deposit_id is the id of the request that was completed.
C29_MatchedLogNamesRequest ==
    \A p \in Procs :
        (Returned(p, "sms") /\ res[p].code = "auto_charged") =>
            /\ deposits[res[p].id].status = "completed"
            /\ smsLogs[res[p].sms_log_id].processing_status = "processed"
            /\ smsLogs[res[p].sms_log_id].matched_deposit_id = res[p].id

\* C30: every SMS log that was parsed and stored eventually leaves status
\* received, also when ingestions interleave: it ends processed or failed
\* and does not stay received.
C30_SmsLeavesReceived ==
    \A i \in 1..MaxSmsOps :
        (i \in 1..Len(smsLogs) /\ smsLogs[i].processing_status = "received")
            ~> (i \in 1..Len(smsLogs) /\ smsLogs[i].processing_status # "received")

\* C31: approve checks the balance again when it decides: when the user's
\* refundable_balance, as approve reads it, is below the amount of the
\* request (money was spent after the request was made), approve fails, the
\* request stays as it is and no balance and no usage record changes.
C31_ApproveRevalidates ==
    [][\A p \in Procs :
          (/\ pc[p] = "approve_refund_new" /\ pc'[p] # pc[p]
           /\ balance[loc[p].user].exists
           /\ balance[loc[p].user].refundable_balance < loc[p].amount) =>
              /\ pc'[p] = "idle"
              /\ res'[p].op = "approve"
              /\ res'[p].code = "INSUFFICIENT_REFUNDABLE"
              /\ UNCHANGED tables]_vars

\* An approval has failed for a request whose amount the user could pay when
\* asking, after a Deduct of the user: the request is still pending.
C31_Witness ==
    \E p \in Procs :
        /\ Returned(p, "approve") /\ res[p].code = "INSUFFICIENT_REFUNDABLE"
        /\ refunds[res[p].id].status = "pending"
        /\ balance[res[p].user].refundable_balance < refunds[res[p].id].refund_amount
        /\ \E i \in 1..Len(usages) :
              usages[i].user_id = res[p].user /\ usages[i].service_type # "refund"

\* What the refundable charges of a user add up to.
RECURSIVE RefundableCharged(_, _)
RefundableCharged(rows, user) ==
    IF rows = <<>> THEN 0
    ELSE (IF Head(rows).user_id = user /\ Head(rows).is_refundable
          THEN Head(rows).amount ELSE 0)
         + RefundableCharged(Tail(rows), user)

\* What the approved refund requests of a user add up to.
RECURSIVE ApprovedTotal(_, _)
ApprovedTotal(rows, user) ==
    IF rows = <<>> THEN 0
    ELSE (IF Head(rows).user_id = user /\ Head(rows).status = "approved"
          THEN Head(rows).refund_amount ELSE 0)
         + ApprovedTotal(Tail(rows), user)

\* C32: refund approval draws on refundable funds only: the step that
\* approves never lowers a non_refundable_balance, and for every user the
\* approved refund amounts add up to no more than the refundable credits the
\* user has received.
C32_RefundsFromRefundable ==
    /\ [](\A u \in Users :
            ApprovedTotal(refunds, u) <= RefundableCharged(charges, u))
    /\ [][\A p \in Procs :
            (pc[p] = "approve_refund_commit" /\ pc'[p] = "idle") =>
                \A u \in Users :
                    balance'[u].non_refundable_balance >= balance[u].non_refundable_balance
         ]_vars

\* The action kind whose limit a request asks check for.
CheckedKind(op) ==
    IF op = "deduct" THEN "balance_deduct"
    ELSE IF op = "review" THEN "review_validation"
    ELSE IF op = "generate" THEN "deposit_generate"
    ELSE "refund_request"

\* C33: check returns a decision for each of the four action kinds
\* (deposit-generation 1/minute, refund-request 3/hour, ledger-deduct
\* 10/minute, review-validation 1/minute): for the user and the kind of a
\* request that has asked it, check is allowed exactly when the user's
\* entries of that kind within the trailing window are fewer than the limit,
\* with remaining = max(0, limit - count), entries of other users and kinds
\* not counted; so a review with text from a user without any
\* review-validation entry is not stopped by the check.
C33_CheckDecides ==
    \A p \in Procs :
        /\ (pc[p] = "idle" /\ res[p].op \in {"deduct", "review"}) =>
              LET u == res[p].user
                  a == CheckedKind(res[p].op)
                  r == check_rate_limit_result(u, a)
                  n == Cardinality({i \in 1..Len(rateLogs) :
                           /\ rateLogs[i].user_id = u
                           /\ rateLogs[i].action_type = a
                           /\ rateLogs[i].created_at >= now - RATE_LIMIT_RULES[a].period_minutes})
              IN /\ ~r.raised
                 /\ r.allowed <=> n < RATE_LIMIT_RULES[a].max_attempts
                 /\ r.remaining_attempts = max(0, RATE_LIMIT_RULES[a].max_attempts - n)
        /\ (/\ Returned(p, "review")
            /\ res[p].amount = calculate_review_reward(TRUE, FALSE)
            /\ \A i \in 1..Len(rateLogs) : rateLogs[i].action_type # "review_validation") =>
               res[p].code # "BAD_REQUEST"

\* The times a later check can be made at.
FutureTimes == 0..(MaxTime + DepositLifetime + 1)

\* The entries on record that a check of (user, action) made at t counts.
CountedAt(user, action, t) ==
    {i \in 1..Len(rateLogs) :
        /\ rateLogs[i].user_id = user
        /\ rateLogs[i].action_type = action
        /\ rateLogs[i].created_at >= t - RATE_LIMIT_CONFIGS[action].period_minutes}

\* A denying check names as reset time the creation time of the oldest entry
\* it counted plus the window length, and that is not before the check.
ResetIsOldestPlusWindow(user, action) ==
    LET r == check_rate_limit_result(user, action)
        counted == CountedAt(user, action, now)
    IN ~r.allowed =>
          /\ \E i \in counted :
                /\ \A j \in counted : rateLogs[i].created_at <= rateLogs[j].created_at
                /\ r.reset_time = rateLogs[i].created_at
                                     + RATE_LIMIT_CONFIGS[action].period_minutes
          /\ r.reset_time >= now

\* With the entries on record, every check after the reset time allows.
AllowedAfterReset(user, action) ==
    LET r == check_rate_limit_result(user, action) IN
    \A t \in FutureTimes :
        t > r.reset_time =>
            Cardinality(CountedAt(user, action, t)) < RATE_LIMIT_CONFIGS[action].max_attempts

\* C34, as stated: when a check denies, its reset time is the creation time
\* of the oldest entry in the window plus the window length and is not before
\* the check, and with no further entry every check after the reset time
\* allows.
C34_ResetOpensWindow ==
    \A u \in Users : \A a \in DOMAIN RATE_LIMIT_CONFIGS :
        /\ ResetIsOldestPlusWindow(u, a)
        /\ ~check_rate_limit_result(u, a).allowed => AllowedAfterReset(u, a)

\* C34, as the code has it: when a check denies, its reset time is the
\* creation time of the oldest entry in the window plus the window length and
\* is not before the check; when the window holds no more entries than the
\* limit, with no further entry every check after the reset time allows. Two
\* calls racing at the boundary are both admitted, and then a check after the
\* reset time can still deny.
C34_ResetAt ==
    \A u \in Users : \A a \in DOMAIN RATE_LIMIT_CONFIGS :
        /\ ResetIsOldestPlusWindow(u, a)
        /\ (/\ ~check_rate_limit_result(u, a).allowed
            /\ current_count(u, a) <= RATE_LIMIT_CONFIGS[a].max_attempts)
              => AllowedAfterReset(u, a)

\* C34 happens: a Deduct was denied by a window that holds the limit of
\* entries made at two different times, and the window has not moved since.
C34_Witness ==
    /\ Returned(1, "deduct")
    /\ res[1].code = "RATE_LIMIT_EXCEEDED"
    /\ res[1].pre.now = now
    /\ current_count("u1", "balance_deduct") = RATE_LIMIT_CONFIGS["balance_deduct"].max_attempts
    /\ \E i, j \in CountedAt("u1", "balance_deduct", now) :
          rateLogs[i].created_at < rateLogs[j].created_at

\* The audit entries for the user written since the returned request began.
AuditedSince(r, user) ==
    {i \in (r.pre.auditLogs + 1)..Len(auditLogs) : auditLogs[i].user_id = user}

\* C35: one request at a time, a request that has returned and changed a
\* user's total balance (a match credit, a manual or simple match, an admin
\* charge, a review reward, a Deduct or a refund approval) has appended
\* exactly one audit entry for that user, and no step modifies or deletes an
\* audit entry already written.
C35_EveryMutationAudited ==
    /\ [](pc[1] = "idle" =>
            \A u \in Users :
                balance[u].total_balance # res[1].pre.balance[u].total_balance =>
                    Cardinality(AuditedSince(res[1], u)) = 1)
    /\ [][/\ Len(auditLogs') >= Len(auditLogs)
          /\ SubSeq(auditLogs', 1, Len(auditLogs)) = auditLogs]_vars

\* C36: every audit entry's balance_after less its balance_before is the
\* signed amount of the change, and, one request at a time, the entry a
\* returned credit or Deduct wrote has the user's total before the request
\* as balance_before and the total after it as balance_after.
C36_AuditRecordsBothEnds ==
    /\ \A i \in 1..Len(auditLogs) :
          auditLogs[i].balance_after - auditLogs[i].balance_before = auditLogs[i].amount
    /\ (pc[1] = "idle" /\ Len(auditLogs) = res[1].pre.auditLogs + 1) =>
          LET e == auditLogs[Len(auditLogs)] IN
          /\ e.balance_before = res[1].pre.balance[e.user_id].total_balance
          /\ e.balance_after = balance[e.user_id].total_balance

\* C37: the status of a deposit request only moves from pending to
\* completed or from pending to expired: no step completes a request that
\* the sweep has expired, and none expires a completed one.
C37_StatusMovesOnce ==
    [][\A i \in 1..Len(deposits) :
          deposits'[i].status # deposits[i].status =>
              /\ deposits[i].status = "pending"
              /\ deposits'[i].status \in {"completed", "expired"}]_vars

\* C38: a user has one ledger row at most, and a credit that found the user
\* without a row (an admin charge that began before the row existed, beside
\* others that did) has created or found the row and credited it: once it
\* has returned the row exists and the charge has not failed.
C38_FirstTouchCredits ==
    \A p \in Procs :
        (/\ Returned(p, "admin_charge")
         /\ res[p].code = "SUCCESS"
         /\ ~res[p].pre.balance[res[p].user].exists) =>
            /\ balance[res[p].user].exists
            /\ res[p].failed_count = 0
            /\ res[p].success_count = 1

\* C39: one request at a time, a manual match that has succeeded credited
\* the user with the parsed_amount of the unmatched transaction it resolved.
C39_ManualMatchCreditsParsedAmount ==
    (Returned(1, "manual_match") /\ res[1].code = "SUCCESS") =>
        LET r == res[1] IN
        balance[r.user].total_balance - r.pre.balance[r.user].total_balance
            = unmatched[r.id].parsed_amount

\* The unmatched rows, as the returned simple match found them, with exactly
\* the payer name and the amount it supplied.
SimpleMatchCandidates(r) ==
    {i \in 1..Len(r.pre.unmatched) :
        /\ r.pre.unmatched[i].parsed_name = r.name
        /\ r.pre.unmatched[i].parsed_amount = r.amount
        /\ r.pre.unmatched[i].status = "unmatched"}

\* C40: one request at a time, a simple match that has returned credited
\* the caller exactly when an unmatched row had the supplied payer name and
\* amount: it then credited that row's amount to the caller's refundable
\* balance and marked that row matched, touching no other row or balance;
\* otherwise it returned that nothing was found and changed no row and no
\* balance.
C40_SimpleMatchExact ==
    Returned(1, "simple_match") =>
        LET r == res[1] IN
        IF SimpleMatchCandidates(r) = {}
        THEN /\ r.code = "NOT_FOUND"
             /\ LedgerUntouched(r)
             /\ unmatched = r.pre.unmatched
             /\ deposits = r.pre.deposits
             /\ refunds = r.pre.refunds
             /\ Len(smsLogs) = r.pre.smsLogs
        ELSE /\ r.code = "SUCCESS"
             /\ r.id \in SimpleMatchCandidates(r)
             /\ balance[r.user].total_balance
                   = r.pre.balance[r.user].total_balance + r.pre.unmatched[r.id].parsed_amount
             /\ balance[r.user].refundable_balance
                   = r.pre.balance[r.user].refundable_balance + r.pre.unmatched[r.id].parsed_amount
             /\ balance[r.user].non_refundable_balance
                   = r.pre.balance[r.user].non_refundable_balance
             /\ \A u \in Users \ {r.user} : balance[u] = r.pre.balance[u]
             /\ Len(charges) = r.pre.charges + 1
             /\ charges[Len(charges)].amount = r.pre.unmatched[r.id].parsed_amount
             /\ unmatched = [r.pre.unmatched EXCEPT ![r.id].status = "matched",
                                                     ![r.id].matched_user_id = r.user]
             /\ deposits = r.pre.deposits
             /\ refunds = r.pre.refunds

\* C40 happens: a simple match found its row, marked it matched and credited
\* the caller.
C40_Witness ==
    /\ Returned(1, "simple_match")
    /\ res[1].code = "SUCCESS"
    /\ unmatched[res[1].id].status = "matched"
    /\ balance[res[1].user].total_balance > res[1].pre.balance[res[1].user].total_balance

====
